---- MODULE Spec2Model ----
(***************************************************************************)
(* Model of the DPDP compliance self-assessment application               *)
(* (src/app.py): the question catalog, the SDF classifier, the compliance *)
(* scorer, the status/risk bands and the recommendation ranker, the        *)
(* request handlers that call them or read what they stored, and the       *)
(* database scripts of src/database_setup.py and src/utils.py.             *)
(*                                                                         *)
(* Identifiers and dates.  An ObjectId, a datetime and the strings that    *)
(* spell them are distinct tagged values, so that writing a document to a  *)
(* backup file and reading it back is not the identity.  clock is the      *)
(* instant of the next operation; it advances with every operation that    *)
(* wrote to the database or to a file.                                     *)
(*                                                                         *)
(* Number representation.  Python computes earned credit as weight * 0.5, *)
(* so every earned amount is a multiple of one half: the model stores     *)
(* earned amounts in half points (earned = 14 stands for 7.0).  Weights   *)
(* and possible amounts are stored in points.  The overall percentage,    *)
(* which the code rounds to two decimals, is stored in hundredths of a    *)
(* percent (5385 stands for 53.85).  A category percentage, which the     *)
(* code leaves unrounded, is stored as the exact fraction num/den.         *)
(***************************************************************************)
EXTENDS Integers, Sequences, FiniteSets, TLC

VARIABLES
    pc,               \* position of the request being handled
    data,             \* request.json of the request; the arguments of a script
    answers,          \* submit_assessment: answers
    score_result,     \* submit_assessment: score_result
    recommendations,  \* submit_assessment: recommendations
    score,            \* submit_assessment: score
    status,           \* submit_assessment: status
    risk,             \* submit_assessment: risk
    sdf_score,        \* save_profile: sdf_score
    is_sdf,           \* save_profile: is_sdf
    response,         \* HTTP status code of the handler's answer
    profiles_col,     \* db['profiles'], in insertion order
    assessments_col,  \* db['assessments'], in insertion order
    reports_col,      \* db['compliance_reports'], in insertion order
    next_id,          \* the next ObjectId the database hands out
    clock,            \* datetime.utcnow()
    organizations_col,  \* db['organizations'], in insertion order
    backup_files,     \* the backup files written so far, oldest first
    threads,          \* the calls in progress at the same time, one per thread
    profiles_unique   \* whether the org_id index of db['profiles'] is unique

locals == <<answers, score_result, recommendations, score, status, risk,
            sdf_score, is_sdf>>
db == <<profiles_col, assessments_col, reports_col, next_id>>
store == <<organizations_col, backup_files>>
concurrent == <<threads, profiles_unique>>
vars == <<pc, data, locals, response, db, clock, store, concurrent>>

\* The marker of a variable the handler has not assigned (yet).
Unset == "unset"

---------------------------------------------------------------------------
(* Question catalog *)

\* The catalog with the second question carrying the id of the first.
get_assessment_questions_DuplicateId ==
    << [id |-> "q1", category |-> "Consent Management", weight |-> 5,
        recommendation |-> "Implement explicit consent mechanism before collecting personal data"],
       [id |-> "q1", category |-> "Consent Management", weight |-> 4,
        recommendation |-> "Create clear, accessible privacy notice explaining data usage"],
       [id |-> "q3", category |-> "Consent Management", weight |-> 4,
        recommendation |-> "Implement consent withdrawal mechanism"],
       [id |-> "q4", category |-> "Data Principal Rights", weight |-> 5,
        recommendation |-> "Create data access request fulfillment process"],
       [id |-> "q5", category |-> "Data Principal Rights", weight |-> 5,
        recommendation |-> "Implement data correction and updation process"],
       [id |-> "q6", category |-> "Data Principal Rights", weight |-> 5,
        recommendation |-> "Establish data deletion (Right to be Forgotten) process"],
       [id |-> "q7", category |-> "Data Principal Rights", weight |-> 4,
        recommendation |-> "Create data portability mechanism"],
       [id |-> "q8", category |-> "Data Security", weight |-> 5,
        recommendation |-> "Implement encryption for sensitive data storage"],
       [id |-> "q9", category |-> "Data Security", weight |-> 5,
        recommendation |-> "Establish access control and authentication systems"],
       [id |-> "q10", category |-> "Data Security", weight |-> 4,
        recommendation |-> "Conduct regular security audits and vulnerability assessments"],
       [id |-> "q11", category |-> "Data Retention", weight |-> 4,
        recommendation |-> "Define and document data retention policies"],
       [id |-> "q12", category |-> "Data Retention", weight |-> 4,
        recommendation |-> "Implement automated data deletion after retention period"],
       [id |-> "q13", category |-> "Data Processing", weight |-> 4,
        recommendation |-> "Establish Data Processing Agreements with all processors"],
       [id |-> "q14", category |-> "Data Processing", weight |-> 3,
        recommendation |-> "Implement processor audit and compliance verification"],
       [id |-> "q15", category |-> "Children Data", weight |-> 5,
        recommendation |-> "Implement parental consent mechanism for children's data"],
       [id |-> "q16", category |-> "Breach Management", weight |-> 5,
        recommendation |-> "Create data breach notification process and templates"],
       [id |-> "q17", category |-> "Breach Management", weight |-> 5,
        recommendation |-> "Establish incident response plan and team"],
       [id |-> "q18", category |-> "Governance", weight |-> 5,
        recommendation |-> "Appoint Data Protection Officer (mandatory for SDF)"],
       [id |-> "q19", category |-> "Governance", weight |-> 4,
        recommendation |-> "Maintain comprehensive data processing records"],
       [id |-> "q20", category |-> "Governance", weight |-> 4,
        recommendation |-> "Conduct Data Protection Impact Assessments for high-risk processing"],
       [id |-> "q21", category |-> "Cross-border Transfer", weight |-> 4,
        recommendation |-> "Ensure adequate safeguards for international data transfers"],
       [id |-> "q22", category |-> "Transparency", weight |-> 3,
        recommendation |-> "Publish and regularly update privacy policy"],
       [id |-> "q23", category |-> "Accountability", weight |-> 4,
        recommendation |-> "Implement data protection compliance monitoring system"],
       [id |-> "q24", category |-> "Training", weight |-> 3,
        recommendation |-> "Conduct regular employee training on DPDP compliance"],
       [id |-> "q25", category |-> "Compliance", weight |-> 4,
        recommendation |-> "Establish grievance redressal mechanism for data principals"] >>

get_assessment_questions ==
    << [id |-> "q1", category |-> "Consent Management", weight |-> 5,
        recommendation |-> "Implement explicit consent mechanism before collecting personal data"],
       [id |-> "q2", category |-> "Consent Management", weight |-> 4,
        recommendation |-> "Create clear, accessible privacy notice explaining data usage"],
       [id |-> "q3", category |-> "Consent Management", weight |-> 4,
        recommendation |-> "Implement consent withdrawal mechanism"],
       [id |-> "q4", category |-> "Data Principal Rights", weight |-> 5,
        recommendation |-> "Create data access request fulfillment process"],
       [id |-> "q5", category |-> "Data Principal Rights", weight |-> 5,
        recommendation |-> "Implement data correction and updation process"],
       [id |-> "q6", category |-> "Data Principal Rights", weight |-> 5,
        recommendation |-> "Establish data deletion (Right to be Forgotten) process"],
       [id |-> "q7", category |-> "Data Principal Rights", weight |-> 4,
        recommendation |-> "Create data portability mechanism"],
       [id |-> "q8", category |-> "Data Security", weight |-> 5,
        recommendation |-> "Implement encryption for sensitive data storage"],
       [id |-> "q9", category |-> "Data Security", weight |-> 5,
        recommendation |-> "Establish access control and authentication systems"],
       [id |-> "q10", category |-> "Data Security", weight |-> 4,
        recommendation |-> "Conduct regular security audits and vulnerability assessments"],
       [id |-> "q11", category |-> "Data Retention", weight |-> 4,
        recommendation |-> "Define and document data retention policies"],
       [id |-> "q12", category |-> "Data Retention", weight |-> 4,
        recommendation |-> "Implement automated data deletion after retention period"],
       [id |-> "q13", category |-> "Data Processing", weight |-> 4,
        recommendation |-> "Establish Data Processing Agreements with all processors"],
       [id |-> "q14", category |-> "Data Processing", weight |-> 3,
        recommendation |-> "Implement processor audit and compliance verification"],
       [id |-> "q15", category |-> "Children Data", weight |-> 5,
        recommendation |-> "Implement parental consent mechanism for children's data"],
       [id |-> "q16", category |-> "Breach Management", weight |-> 5,
        recommendation |-> "Create data breach notification process and templates"],
       [id |-> "q17", category |-> "Breach Management", weight |-> 5,
        recommendation |-> "Establish incident response plan and team"],
       [id |-> "q18", category |-> "Governance", weight |-> 5,
        recommendation |-> "Appoint Data Protection Officer (mandatory for SDF)"],
       [id |-> "q19", category |-> "Governance", weight |-> 4,
        recommendation |-> "Maintain comprehensive data processing records"],
       [id |-> "q20", category |-> "Governance", weight |-> 4,
        recommendation |-> "Conduct Data Protection Impact Assessments for high-risk processing"],
       [id |-> "q21", category |-> "Cross-border Transfer", weight |-> 4,
        recommendation |-> "Ensure adequate safeguards for international data transfers"],
       [id |-> "q22", category |-> "Transparency", weight |-> 3,
        recommendation |-> "Publish and regularly update privacy policy"],
       [id |-> "q23", category |-> "Accountability", weight |-> 4,
        recommendation |-> "Implement data protection compliance monitoring system"],
       [id |-> "q24", category |-> "Training", weight |-> 3,
        recommendation |-> "Conduct regular employee training on DPDP compliance"],
       [id |-> "q25", category |-> "Compliance", weight |-> 4,
        recommendation |-> "Establish grievance redressal mechanism for data principals"] >>

---------------------------------------------------------------------------
(* Python helpers *)

\* A JSON value of a request body, tagged with its Python type: an object (a
\* dict, its items in value), an array (a list), a string, or null (None).
JsonDict(items) == [type |-> "dict", value |-> items]
JsonList(elems) == [type |-> "list", value |-> elems]
JsonStr(s) == [type |-> "str", value |-> s]
JsonNull == [type |-> "NoneType", value |-> <<>>]

\* bson.ObjectId: the n-th identifier the database hands out
ObjectId(n) == [type |-> "ObjectId", value |-> n]

\* datetime: the instant t
Datetime(t) == [type |-> "datetime", value |-> t]

\* str(oid) of an ObjectId and dt.isoformat() of a datetime: the string that
\* spells the value
StrOf(v) == [type |-> "str", value |-> <<v.type, v.value>>]

\* ObjectId(s) of a string: the identifier the string spells
ParseObjectId(s) == [type |-> "ObjectId", value |-> s.value[2]]

\* ObjectId(s) raises InvalidId when s spells no ObjectId
ParseObjectIdRaises(s) == s.value[1] # "ObjectId"

\* v == s for a string literal s
StrEq(v, s) == v.type = "str" /\ v.value = s

\* d.get(key, default) on a dict d
DictGet(d, key, default) ==
    IF key \in DOMAIN d.value THEN d.value[key] ELSE default

\* d.get(...) raises AttributeError when d is None
GetRaises(d) == d.type # "dict"

\* Round2 rounding to the whole percent.
Round2_WholePercent(n, d) ==
    LET q == (n * 100) \div d
        r == (n * 100) % d
    IN  IF 2 * r >= d THEN (q + 1) * 100 ELSE q * 100

\* round(n / d * 100, 2), in hundredths of a percent: the nearest hundredth,
\* an exact tie going to the even one.  The float n / d * 100 differs from the
\* exact quotient by a relative error of about 1e-16; for the catalog's total
\* weight of 107 no exact quotient is a tie or lies that near one, so the
\* rounding of the exact quotient is the rounding of the float.
Round2(n, d) ==
    LET q == (n * 10000) \div d
        r == (n * 10000) % d
    IN  IF 2 * r > d THEN q + 1
        ELSE IF 2 * r < d THEN q
        ELSE IF q % 2 = 0 THEN q ELSE q + 1

\* lst[:n]
Take(lst, n) ==
    IF Len(lst) <= n THEN lst ELSE SubSeq(lst, 1, n)

\* The exact value n/d of an unrounded float.
Frac(n, d) == [num |-> n, den |-> d]

---------------------------------------------------------------------------
(* Compliance scorer *)

\* Earned with "Partial" credited above "Yes".
Earned_PartialAboveYes(answer, weight) ==
    IF answer = "Yes" THEN 2 * weight
    ELSE IF answer = "Partial" THEN 3 * weight
    ELSE 0

\* Earned with "Yes" credited like "Partial".
Earned_YesAsPartial(answer, weight) ==
    IF answer = "Yes" THEN weight
    ELSE IF answer = "Partial" THEN weight
    ELSE 0

\* Earned with every value but "Yes" and "No" credited like "Partial".
Earned_OtherAsPartial(answer, weight) ==
    IF answer = "Yes" THEN 2 * weight
    ELSE IF answer = "No" THEN 0
    ELSE weight

\* The credit of one answer, in half points:
\*   if answer == 'Yes': weight / elif answer == 'Partial': weight * 0.5 / else 0
Earned(answer, weight) ==
    IF answer = "Yes" THEN 2 * weight
    ELSE IF answer = "Partial" THEN weight
    ELSE 0

\* ScoreStep counting a question's weight as possible only when the answers
\* hold its id.
ScoreStep_PossibleIfAnswered(acc, q, ans) ==
    LET category == q.category
        cs0 == IF category \in DOMAIN acc.category_scores
                 THEN acc.category_scores
                 ELSE acc.category_scores @@
                      (category :> [earned |-> 0, possible |-> 0])
        earned == Earned(DictGet(ans, q.id, "No"), q.weight)
        possible == IF q.id \in DOMAIN ans.value THEN q.weight ELSE 0
    IN  [total_possible |-> acc.total_possible + possible,
         total_earned |-> acc.total_earned + earned,
         category_scores |->
             [cs0 EXCEPT ![category] =
                 [earned |-> @.earned + earned,
                  possible |-> @.possible + possible]]]

\* One pass of the loop "for q in questions", on the accumulator
\* (total_possible, total_earned, category_scores).
ScoreStep(acc, q, ans) ==
    LET category == q.category
        cs0 == IF category \in DOMAIN acc.category_scores
                 THEN acc.category_scores
                 ELSE acc.category_scores @@
                      (category :> [earned |-> 0, possible |-> 0])
        earned == Earned(DictGet(ans, q.id, "No"), q.weight)
    IN  [total_possible |-> acc.total_possible + q.weight,
         total_earned |-> acc.total_earned + earned,
         category_scores |->
             [cs0 EXCEPT ![category] =
                 [earned |-> @.earned + earned,
                  possible |-> @.possible + q.weight]]]

RECURSIVE ScoreLoop(_, _, _)
ScoreLoop(acc, i, ans) ==
    IF i > Len(get_assessment_questions) THEN acc
    ELSE ScoreLoop(ScoreStep(acc, get_assessment_questions[i], ans), i + 1, ans)

\* CategoryPercentage as a ratio, not multiplied by 100.
CategoryPercentage_Ratio(earned, possible) ==
    IF possible > 0 THEN Frac(earned, 2 * possible) ELSE Frac(0, 1)

\* (earned / possible * 100) if possible > 0 else 0
CategoryPercentage(earned, possible) ==
    IF possible > 0 THEN Frac(100 * earned, 2 * possible) ELSE Frac(0, 1)

\* (total_earned / total_possible * 100) if total_possible > 0 else 0, rounded
OverallPercentage(total_earned, total_possible) ==
    IF total_possible > 0 THEN Round2(total_earned, 2 * total_possible) ELSE 0

\* answers.get(q_id, 'No') raises when answers is no dict
calculate_compliance_score_raises(ans) == GetRaises(ans)

\* The locals of calculate_compliance_score before its loop.
ScoreStart == [total_possible |-> 0, total_earned |-> 0, category_scores |-> <<>>]

\* What calculate_compliance_score returns once its loop has left acc.
ScoreReturn(acc) ==
        [percentage |-> OverallPercentage(acc.total_earned, acc.total_possible),
         total_earned |-> acc.total_earned,
         total_possible |-> acc.total_possible,
         category_scores |->
             [cat \in DOMAIN acc.category_scores |->
                 [earned |-> acc.category_scores[cat].earned,
                  possible |-> acc.category_scores[cat].possible,
                  percentage |->
                      CategoryPercentage(acc.category_scores[cat].earned,
                                         acc.category_scores[cat].possible)]]]

calculate_compliance_score(ans) == ScoreReturn(ScoreLoop(ScoreStart, 1, ans))

---------------------------------------------------------------------------
(* Recommendation ranker *)

priority_map == [High |-> 1, Medium |-> 2, Low |-> 3]

\* Priority with the two branches exchanged.
Priority_Swapped(answer) ==
    IF answer = "No" THEN "Medium" ELSE "High"

\* priority = 'High' if answer == 'No' else 'Medium'
Priority(answer) ==
    IF answer = "No" THEN "High" ELSE "Medium"

\* RecommendLoop without the test answer != 'Yes': one entry per question.
RECURSIVE RecommendLoop_ForEveryAnswer(_, _, _)
RecommendLoop_ForEveryAnswer(recs, i, ans) ==
    IF i > Len(get_assessment_questions) THEN recs
    ELSE LET q == get_assessment_questions[i]
             answer == DictGet(ans, q.id, "No")
         IN  RecommendLoop_ForEveryAnswer(
                 Append(recs, [action |-> q.recommendation,
                               category |-> q.category,
                               priority |-> Priority(answer)]),
                 i + 1, ans)

\* One pass of the loop "for q in questions": an entry appended if the
\* answer is not 'Yes'.
RecommendStep(recs, q, ans) ==
    LET answer == DictGet(ans, q.id, "No")
    IN  IF answer # "Yes"
          THEN Append(recs, [action |-> q.recommendation,
                             category |-> q.category,
                             priority |-> Priority(answer)])
          ELSE recs

\* The loop "for q in questions", appending one entry per answer != 'Yes'.
RECURSIVE RecommendLoop(_, _, _)
RecommendLoop(recs, i, ans) ==
    IF i > Len(get_assessment_questions) THEN recs
    ELSE RecommendLoop(RecommendStep(recs, get_assessment_questions[i], ans),
                       i + 1, ans)

\* The sort key: lambda x: priority_map[x['priority']]
SortKey(x) == priority_map[x.priority]

\* InsertStable putting x before the elements of equal key: not stable.
RECURSIVE InsertStable_BeforeEqual(_, _)
InsertStable_BeforeEqual(lst, x) ==
    IF lst = <<>> THEN <<x>>
    ELSE IF SortKey(lst[Len(lst)]) < SortKey(x) THEN Append(lst, x)
    ELSE Append(InsertStable_BeforeEqual(SubSeq(lst, 1, Len(lst) - 1), x), lst[Len(lst)])

\* Where a stable sort puts x into the sorted list lst: behind every element
\* whose key is not greater.
RECURSIVE InsertStable(_, _)
InsertStable(lst, x) ==
    IF lst = <<>> THEN <<x>>
    ELSE IF SortKey(lst[Len(lst)]) <= SortKey(x) THEN Append(lst, x)
    ELSE Append(InsertStable(SubSeq(lst, 1, Len(lst) - 1), x), lst[Len(lst)])

\* list.sort(key=...): ascending by key, stable.
RECURSIVE SortFrom(_, _, _)
SortFrom(sorted, lst, i) ==
    IF i > Len(lst) THEN sorted
    ELSE SortFrom(InsertStable(sorted, lst[i]), lst, i + 1)

SortByPriority(lst) == SortFrom(<<>>, lst, 1)

\* generate_recommendations cutting the list before sorting it.
generate_recommendations_CutFirst(ans, result) ==
    SortByPriority(Take(RecommendLoop(<<>>, 1, ans), 10))

generate_recommendations(ans, result) ==
    Take(SortByPriority(RecommendLoop(<<>>, 1, ans)), 10)

---------------------------------------------------------------------------
(* Status and risk bands of submit_assessment; the score in hundredths *)

\* StatusRisk with the upper boundary exclusive.
StatusRisk_Exclusive(s) ==
    IF s > 8000 THEN [status |-> "Fully Compliant", risk |-> "Low"]
    ELSE IF s >= 5000 THEN [status |-> "Partially Compliant", risk |-> "Medium"]
    ELSE [status |-> "Non-Compliant", risk |-> "High"]

StatusRisk(s) ==
    IF s >= 8000 THEN [status |-> "Fully Compliant", risk |-> "Low"]
    ELSE IF s >= 5000 THEN [status |-> "Partially Compliant", risk |-> "Medium"]
    ELSE [status |-> "Non-Compliant", risk |-> "High"]

---------------------------------------------------------------------------
(* SDF classifier *)

\* profile_data.get(...) raises AttributeError when profile_data is None, and
\* "'Children Data' in data_types" raises TypeError when data_types is None.
calculate_sdf_score_raises(profile_data) ==
    \/ GetRaises(profile_data)
    \/ DictGet(profile_data, "dataTypes", JsonList(<<>>)).type = "NoneType"

\* VolumeScore with the two upper buckets exchanged.
VolumeScore_Exchanged(volume) ==
    IF StrEq(volume, "more_than_1_million") THEN 3
    ELSE IF StrEq(volume, "100k_to_1_million") THEN 5
    ELSE IF StrEq(volume, "10k_to_100k") THEN 2
    ELSE 0

VolumeScore(volume) ==
    IF StrEq(volume, "more_than_1_million") THEN 5
    ELSE IF StrEq(volume, "100k_to_1_million") THEN 3
    ELSE IF StrEq(volume, "10k_to_100k") THEN 2
    ELSE 0

EmployeeScore(employees) ==
    IF StrEq(employees, "more_than_500") THEN 3
    ELSE IF StrEq(employees, "100_to_500") THEN 2
    ELSE 0

\* 'Children Data' in data_types, for a list
HasChildrenData(data_types) ==
    \E i \in DOMAIN data_types.value : data_types.value[i] = "Children Data"

calculate_sdf_score(profile_data) ==
    LET score0 == 0
        score1 == score0 + VolumeScore(DictGet(profile_data, "dataVolume", JsonStr("")))
        score2 == score1 + EmployeeScore(DictGet(profile_data, "employeeCount", JsonStr("")))
        score3 == IF StrEq(DictGet(profile_data, "sensitiveData", JsonNull), "Yes")
                    THEN score2 + 4 ELSE score2
        score4 == IF HasChildrenData(DictGet(profile_data, "dataTypes", JsonList(<<>>)))
                    THEN score3 + 5 ELSE score3
        score5 == IF StrEq(DictGet(profile_data, "crossBorderTransfer", JsonNull), "Yes")
                    THEN score4 + 3 ELSE score4
    IN  score5

\* is_sdf = sdf_score >= 10
IsSdf(s) == s >= 10

---------------------------------------------------------------------------
(* Database *)

\* FindOne finding no document.
FindOne_NotFound(col, org_id) == 0

\* col.find_one({'org_id': org_id}): the position of the first match, 0 if none
FindOne(col, org_id) ==
    IF \E i \in DOMAIN col : col[i].org_id = org_id
      THEN CHOOSE i \in DOMAIN col :
               /\ col[i].org_id = org_id
               /\ \A j \in 1..(i - 1) : col[j].org_id # org_id
      ELSE 0

\* col.update_one({'org_id': org_id}, {'$set': doc}, upsert=True)
UpdateOneUpsert(col, org_id, doc, id) ==
    LET i == FindOne(col, org_id)
    IN  IF i # 0 THEN [col EXCEPT ![i] = [_id |-> col[i]._id] @@ doc]
        ELSE Append(col, [_id |-> id] @@ doc)

\* InsertOne writing over the last document of a collection that has one.
InsertOne_OverLast(col, doc, id) ==
    IF col = <<>> THEN <<[_id |-> id] @@ doc>>
    ELSE [col EXCEPT ![Len(col)] = [_id |-> id] @@ doc]

\* col.insert_one(doc)
InsertOne(col, doc, id) == Append(col, [_id |-> id] @@ doc)

---------------------------------------------------------------------------
(* POST /api/profile *)

\* profile_doc of save_profile, built at instant now
profile_doc(org_id, request_json, now) ==
    [org_id |-> org_id,
     businessType |-> DictGet(request_json, "businessType", JsonNull),
     employeeCount |-> DictGet(request_json, "employeeCount", JsonNull),
     dataVolume |-> DictGet(request_json, "dataVolume", JsonNull),
     dataTypes |-> DictGet(request_json, "dataTypes", JsonList(<<>>)),
     sensitiveData |-> DictGet(request_json, "sensitiveData", JsonNull),
     dataLocation |-> DictGet(request_json, "dataLocation", JsonNull),
     thirdPartySharing |-> DictGet(request_json, "thirdPartySharing", JsonNull),
     crossBorderTransfer |-> DictGet(request_json, "crossBorderTransfer", JsonNull),
     sdf_score |-> calculate_sdf_score(request_json),
     is_sdf |-> IsSdf(calculate_sdf_score(request_json)),
     created_at |-> Datetime(now),
     updated_at |-> Datetime(now)]

\* request.json is the parameter request_json.
save_profile(current_org, request_json) ==
    IF calculate_sdf_score_raises(request_json)
      THEN \* except Exception as e: return jsonify({'error': str(e)}), 500
           /\ response' = 500
           /\ UNCHANGED <<sdf_score, is_sdf, db>>
      ELSE LET org_id == current_org._id
               s == calculate_sdf_score(request_json)
           IN  /\ sdf_score' = s
               /\ is_sdf' = IsSdf(s)
               /\ profiles_col' = UpdateOneUpsert(profiles_col, org_id,
                                      profile_doc(org_id, request_json, clock),
                                      ObjectId(next_id))
               /\ next_id' = IF FindOne(profiles_col, org_id) = 0
                               THEN next_id + 1 ELSE next_id
               /\ response' = 200
               /\ UNCHANGED <<assessments_col, reports_col>>

---------------------------------------------------------------------------
(* POST /api/assessment *)

\* request.json is the parameter request_json.
submit_assessment(current_org, request_json) ==
    IF GetRaises(request_json)
      THEN \* data.get on None; except Exception as e: ..., 500
           /\ response' = 500
           /\ UNCHANGED <<answers, score_result, recommendations, score, status, risk, db>>
    ELSE IF calculate_compliance_score_raises(DictGet(request_json, "answers", JsonDict(<<>>)))
      THEN /\ answers' = DictGet(request_json, "answers", JsonDict(<<>>))
           /\ response' = 500
           /\ UNCHANGED <<score_result, recommendations, score, status, risk, db>>
    ELSE LET org_id == current_org._id
             ans == DictGet(request_json, "answers", JsonDict(<<>>))
             result == calculate_compliance_score(ans)
             recs == generate_recommendations(ans, result)
             band == StatusRisk(result.percentage)
             profile == FindOne(profiles_col, org_id)
             assessment_doc ==
                 [org_id |-> org_id,
                  answers |-> ans,
                  score |-> result.percentage,
                  status |-> band.status,
                  risk |-> band.risk,
                  category_scores |-> result.category_scores,
                  created_at |-> Datetime(clock)]
             report_doc ==
                 [org_id |-> org_id,
                  assessment_id |-> ObjectId(next_id),
                  organizationName |-> current_org.organizationName,
                  score |-> result.percentage,
                  status |-> band.status,
                  risk |-> band.risk,
                  is_sdf |-> IF profile # 0 THEN profiles_col[profile].is_sdf ELSE FALSE,
                  sdf_score |-> IF profile # 0 THEN profiles_col[profile].sdf_score ELSE 0,
                  recommendations |-> recs,
                  category_scores |-> result.category_scores,
                  report_date |-> Datetime(clock)]
         IN  /\ answers' = ans
             /\ score_result' = result
             /\ recommendations' = recs
             /\ score' = result.percentage
             /\ status' = band.status
             /\ risk' = band.risk
             /\ assessments_col' = InsertOne(assessments_col, assessment_doc, ObjectId(next_id))
             /\ reports_col' = InsertOne(reports_col, report_doc, ObjectId(next_id + 1))
             /\ next_id' = next_id + 2
             /\ response' = 200
             /\ UNCHANGED profiles_col

---------------------------------------------------------------------------
(* The requests of the model *)

\* The authenticated organization of the request (current_org).
RequestOrg == [_id |-> ObjectId(0), organizationName |-> "Sample Test Company"]

\* The most runs (maximal blocks of consecutive keys holding the same answer)
\* an answers object is made of.
MaxRuns == 2

\* A key that is no catalog id.
UnknownId == "q26"

\* The keys of an answers object, in layout order: the catalog ids, then
\* UnknownId.
AnswerKeys ==
    [i \in 1..(Len(get_assessment_questions) + 1) |->
        IF i <= Len(get_assessment_questions)
          THEN get_assessment_questions[i].id ELSE UnknownId]

KeyIndex ==
    [key \in { AnswerKeys[i] : i \in DOMAIN AnswerKeys } |->
        CHOOSE i \in DOMAIN AnswerKeys : AnswerKeys[i] = key]

\* What an answers object holds for a key: one of the three literals, a value
\* that is none of them ("Maybe" stands for any such value), or nothing (the
\* key is absent).
Absent == "(absent)"
AnswerValues == {"Yes", "Partial", "No", "Maybe"}

\* The layouts of n keys made of at most r runs.
RECURSIVE RunLayouts(_, _)
RunLayouts(n, r) ==
    IF n = 0 THEN {<<>>}
    ELSE IF r = 0 THEN {}
    ELSE UNION { { [i \in 1..k |-> v] \o t : t \in RunLayouts(n - k, r - 1) } :
                 k \in 1..n, v \in AnswerValues \cup {Absent} }

\* The answers object of a layout.
LayoutAnswers(layout) ==
    JsonDict([key \in { AnswerKeys[i] : i \in { j \in DOMAIN layout : layout[j] # Absent } } |->
                layout[KeyIndex[key]]])

\* The request bodies of POST /api/assessment: an answers object, "answers":
\* null, no "answers" key, and the body null.
AssessmentBodies ==
    { JsonDict("answers" :> LayoutAnswers(l)) : l \in RunLayouts(Len(AnswerKeys), MaxRuns) }
    \cup { JsonDict("answers" :> JsonNull), JsonDict(<<>>), JsonNull }

\* The longest dataTypes list of a profile.
MaxDataTypes == 2

DataTypeTags == {"Children Data", "Financial Data"}

DataTypeLists ==
    UNION { [1..n -> DataTypeTags] : n \in 0..MaxDataTypes }

AbsentField == [type |-> "absent", value |-> <<>>]

\* The values a profile body holds for each field that calculate_sdf_score
\* reads; the other fields are left out of the body.
ProfileFieldValues ==
    [dataVolume |-> {AbsentField, JsonNull, JsonStr("more_than_1_million"),
                     JsonStr("100k_to_1_million"), JsonStr("10k_to_100k"),
                     JsonStr("less_than_10k")},
     employeeCount |-> {AbsentField, JsonStr("more_than_500"),
                        JsonStr("100_to_500"), JsonStr("less_than_100")},
     sensitiveData |-> {AbsentField, JsonStr("Yes"), JsonStr("No")},
     dataTypes |-> {AbsentField, JsonNull} \cup { JsonList(l) : l \in DataTypeLists },
     crossBorderTransfer |-> {AbsentField, JsonStr("Yes"), JsonStr("No")}]

\* The body that holds exactly the fields of f that are not absent.
ProfileBody(f) ==
    JsonDict([k \in { x \in DOMAIN f : f[x].type # "absent" } |-> f[k]])

\* The request bodies of POST /api/profile, and the body null.
ProfileBodies ==
    { ProfileBody(f) :
        f \in [dataVolume : ProfileFieldValues.dataVolume,
               employeeCount : ProfileFieldValues.employeeCount,
               sensitiveData : ProfileFieldValues.sensitiveData,
               dataTypes : ProfileFieldValues.dataTypes,
               crossBorderTransfer : ProfileFieldValues.crossBorderTransfer] }
    \cup {JsonNull}

\* The highest score, in percent, the band table is applied to.
MaxPercent == 100

---------------------------------------------------------------------------
(* Specifications *)

\* No handler has run: nothing assigned, the collections empty but for the
\* organization of the request.
Idle ==
    /\ organizations_col = <<RequestOrg>>
    /\ backup_files = <<>>
    /\ threads = <<>>
    /\ profiles_unique = FALSE
    /\ answers = Unset
    /\ score_result = Unset
    /\ recommendations = Unset
    /\ status = Unset
    /\ risk = Unset
    /\ sdf_score = Unset
    /\ is_sdf = Unset
    /\ response = Unset
    /\ profiles_col = <<>>
    /\ assessments_col = <<>>
    /\ reports_col = <<>>
    /\ next_id = 1
    /\ clock = 1

\* One POST /api/assessment request, handled.
InitAssessment ==
    /\ pc = "request"
    /\ data \in AssessmentBodies
    /\ score = Unset
    /\ Idle

HandleAssessment ==
    /\ pc = "request"
    /\ submit_assessment(RequestOrg, data)
    /\ pc' = "done"
    /\ clock' = clock + 1
    /\ UNCHANGED <<data, sdf_score, is_sdf, store>>
    /\ UNCHANGED concurrent

NextAssessment == HandleAssessment

SpecAssessment == InitAssessment /\ [][NextAssessment]_vars

\* One POST /api/profile request, handled.
InitProfile ==
    /\ pc = "request"
    /\ data \in ProfileBodies
    /\ score = Unset
    /\ Idle

HandleProfile ==
    /\ pc = "request"
    /\ save_profile(RequestOrg, data)
    /\ pc' = "done"
    /\ clock' = clock + 1
    /\ UNCHANGED <<data, answers, score_result, recommendations, score, status, risk,
                   store>>
    /\ UNCHANGED concurrent

NextProfile == HandleProfile

SpecProfile == InitProfile /\ [][NextProfile]_vars

\* The band table of submit_assessment, applied to a score.
InitRisk ==
    /\ pc = "score"
    /\ data = Unset
    /\ score \in 0..(MaxPercent * 100)
    /\ Idle

ClassifyRisk ==
    /\ pc = "score"
    /\ status' = StatusRisk(score).status
    /\ risk' = StatusRisk(score).risk
    /\ pc' = "done"
    /\ UNCHANGED <<data, answers, score_result, recommendations, score,
                   sdf_score, is_sdf, response, db, clock, store>>
    /\ UNCHANGED concurrent

NextRisk == ClassifyRisk

SpecRisk == InitRisk /\ [][NextRisk]_vars

---------------------------------------------------------------------------
(* Organizations: application start, POST /api/register *)

\* col.find_one({'email': email}): the position of the first match, 0 if none
FindOneByEmail(col, email) ==
    IF \E i \in DOMAIN col : col[i].email = email
      THEN CHOOSE i \in DOMAIN col :
               /\ col[i].email = email
               /\ \A j \in 1..(i - 1) : col[j].email # email
      ELSE 0

\* The organization document the application creates at start when no
\* organization holds the admin email.  The password hash, which nothing of
\* the model reads, is left out of every organization document.
AppAdminDoc(now) ==
    [organizationName |-> "System Admin",
     email |-> "admin@dpdp.com",
     phone |-> "0000000000",
     gstin |-> "ADMIN000000",
     role |-> "admin",
     created_at |-> Datetime(now),
     verified |-> TRUE]

\* The application has started on an empty database: the admin organization
\* exists, nothing else is stored and no request has been handled.
AppStarted ==
    /\ organizations_col = InsertOne(<<>>, AppAdminDoc(0), ObjectId(1))
    /\ profiles_col = <<>>
    /\ assessments_col = <<>>
    /\ reports_col = <<>>
    /\ next_id = 2
    /\ clock = 1
    /\ backup_files = <<>>
    /\ threads = <<>>
    /\ profiles_unique = FALSE
    /\ data = Unset
    /\ answers = Unset
    /\ score_result = Unset
    /\ recommendations = Unset
    /\ score = Unset
    /\ status = Unset
    /\ risk = Unset
    /\ sdf_score = Unset
    /\ is_sdf = Unset
    /\ response = Unset

\* The fields register requires of its body.
required_fields == {"organizationName", "email", "phone", "gstin", "password"}

\* "field not in data or not data[field]" for some required field
MissingField(request_json) ==
    \E field \in required_fields :
        \/ field \notin DOMAIN request_json.value
        \/ request_json.value[field] = ""

\* org_doc of register
org_doc(request_json, now) ==
    [organizationName |-> request_json.value.organizationName,
     email |-> request_json.value.email,
     phone |-> request_json.value.phone,
     gstin |-> request_json.value.gstin,
     role |-> "organization",
     created_at |-> Datetime(now),
     verified |-> FALSE]

\* register; request.json is the parameter request_json, an object of strings.
register(request_json) ==
    IF MissingField(request_json)
      THEN /\ response' = 400
           /\ UNCHANGED <<organizations_col, next_id>>
    ELSE IF FindOneByEmail(organizations_col, request_json.value.email) # 0
      THEN /\ response' = 400
           /\ UNCHANGED <<organizations_col, next_id>>
    ELSE /\ organizations_col' =
                InsertOne(organizations_col, org_doc(request_json, clock),
                          ObjectId(next_id))
         /\ next_id' = next_id + 1
         /\ response' = 201

---------------------------------------------------------------------------
(* database_setup.py: setup_database, add_sample_assessments *)

\* admin_doc of setup_database
SetupAdminDoc(now) ==
    [organizationName |-> "System Administrator",
     email |-> "admin@dpdp.com",
     phone |-> "+91-0000000000",
     gstin |-> "ADMIN000000000",
     role |-> "admin",
     created_at |-> Datetime(now),
     verified |-> TRUE]

\* test_org of setup_database
test_org(now) ==
    [organizationName |-> "Sample Test Company",
     email |-> "test@company.com",
     phone |-> "+91-9876543210",
     gstin |-> "29ABCDE1234F1Z5",
     role |-> "organization",
     created_at |-> Datetime(now),
     verified |-> TRUE]

\* test_profile of setup_database
test_profile(org_id, now) ==
    [org_id |-> org_id,
     businessType |-> JsonStr("Technology"),
     employeeCount |-> JsonStr("100_to_500"),
     dataVolume |-> JsonStr("100k_to_1_million"),
     dataTypes |-> JsonList(<<"Contact Information", "Financial Data", "Health Data">>),
     sensitiveData |-> JsonStr("Yes"),
     dataLocation |-> JsonStr("India"),
     thirdPartySharing |-> JsonStr("Yes"),
     crossBorderTransfer |-> JsonStr("No"),
     sdf_score |-> 8,
     is_sdf |-> FALSE,
     created_at |-> Datetime(now),
     updated_at |-> Datetime(now)]

\* setup_database: the admin organization if no organization holds its
\* email, then the test organization and its profile if no organization
\* holds the test email.  The indexes it creates store no document.
setup_database ==
    LET admin == FindOneByEmail(organizations_col, "admin@dpdp.com")
        orgs1 == IF admin = 0
                   THEN InsertOne(organizations_col, SetupAdminDoc(clock),
                                  ObjectId(next_id))
                   ELSE organizations_col
        id1 == IF admin = 0 THEN next_id + 1 ELSE next_id
    IN  IF FindOneByEmail(orgs1, "test@company.com") = 0
          THEN /\ organizations_col' = InsertOne(orgs1, test_org(clock), ObjectId(id1))
               /\ profiles_col' = InsertOne(profiles_col,
                                            test_profile(ObjectId(id1), clock),
                                            ObjectId(id1 + 1))
               /\ next_id' = id1 + 2
          ELSE /\ organizations_col' = orgs1
               /\ next_id' = id1
               /\ UNCHANGED profiles_col

\* sample_answers of add_sample_assessments
sample_answers ==
    JsonDict([q1 |-> "Yes", q2 |-> "Yes", q3 |-> "Partial", q4 |-> "Yes",
              q5 |-> "Partial", q6 |-> "No", q7 |-> "No", q8 |-> "Yes",
              q9 |-> "Yes", q10 |-> "Partial", q11 |-> "Yes", q12 |-> "No",
              q13 |-> "Partial", q14 |-> "No", q15 |-> "Yes", q16 |-> "No",
              q17 |-> "No", q18 |-> "No", q19 |-> "Partial", q20 |-> "No",
              q21 |-> "Yes", q22 |-> "Yes", q23 |-> "Partial", q24 |-> "No",
              q25 |-> "Partial"])

\* assessment['category_scores'] of add_sample_assessments: the earned
\* amounts 10.5, 11.0, 11.5 in half points, the percentages 80.77, 57.89,
\* 82.14 as fractions.
sample_category_scores ==
    ("Consent Management" :>
         [earned |-> 21, possible |-> 13, percentage |-> Frac(8077, 100)])
    @@ ("Data Principal Rights" :>
         [earned |-> 22, possible |-> 19, percentage |-> Frac(5789, 100)])
    @@ ("Data Security" :>
         [earned |-> 23, possible |-> 14, percentage |-> Frac(8214, 100)])

\* report['recommendations'] of add_sample_assessments
sample_recommendations ==
    <<[action |-> "Establish data deletion (Right to be Forgotten) process",
       category |-> "Data Principal Rights", priority |-> "High"],
      [action |-> "Create data breach notification process and templates",
       category |-> "Breach Management", priority |-> "High"],
      [action |-> "Establish incident response plan and team",
       category |-> "Breach Management", priority |-> "High"]>>

\* add_sample_assessments: nothing without the test organization; otherwise
\* one assessment and one report of literal values (score 56.5).
add_sample_assessments ==
    LET org == FindOneByEmail(organizations_col, "test@company.com")
    IN  IF org = 0
          THEN UNCHANGED <<assessments_col, reports_col, next_id>>
          ELSE LET assessment ==
                       [org_id |-> organizations_col[org]._id,
                        answers |-> sample_answers,
                        score |-> 5650,
                        status |-> "Partially Compliant",
                        risk |-> "Medium",
                        category_scores |-> sample_category_scores,
                        created_at |-> Datetime(clock)]
                   report ==
                       [org_id |-> organizations_col[org]._id,
                        assessment_id |-> ObjectId(next_id),
                        organizationName |-> organizations_col[org].organizationName,
                        score |-> 5650,
                        status |-> "Partially Compliant",
                        risk |-> "Medium",
                        is_sdf |-> FALSE,
                        sdf_score |-> 8,
                        recommendations |-> sample_recommendations,
                        category_scores |-> assessment.category_scores,
                        report_date |-> Datetime(clock)]
               IN  /\ assessments_col' =
                          InsertOne(assessments_col, assessment, ObjectId(next_id))
                   /\ reports_col' =
                          InsertOne(reports_col, report, ObjectId(next_id + 1))
                   /\ next_id' = next_id + 2

---------------------------------------------------------------------------
(* utils.py: backup_database, restore_database, delete_organization *)

\* The keys under which the documents of the four collections hold an
\* ObjectId, and those under which they hold a datetime; under every other
\* key they hold neither, at any depth.
ObjectIdKeys == {"_id", "org_id", "assessment_id"}
DatetimeKeys == {"created_at", "updated_at", "report_date"}

\* serialize_mongo_doc: an ObjectId becomes str(value), a datetime
\* value.isoformat(), anything else is kept.
serialize_mongo_doc(doc) ==
    [key \in DOMAIN doc |->
        IF key \in ObjectIdKeys \cup DatetimeKeys
          THEN IF doc[key].type \in {"ObjectId", "datetime"}
                 THEN StrOf(doc[key]) ELSE doc[key]
          ELSE doc[key]]

\* [serialize_mongo_doc(doc) for doc in documents]
SerializeAll(documents) ==
    [i \in DOMAIN documents |-> serialize_mongo_doc(documents[i])]

\* backup_database: one more backup file, holding the four collections
\* serialized.
backup_database ==
    LET backup_data ==
            [backup_date |-> StrOf(Datetime(clock)),
             database |-> "dpdp_compliance_db",
             collections |->
                 [organizations |-> SerializeAll(organizations_col),
                  profiles |-> SerializeAll(profiles_col),
                  assessments |-> SerializeAll(assessments_col),
                  compliance_reports |-> SerializeAll(reports_col)]]
    IN  backup_files' = Append(backup_files, backup_data)

\* RestoreDoc leaving the strings of org_id and assessment_id as they are.
RestoreDoc_IdOnly(doc) ==
    [key \in DOMAIN doc |->
        IF key = "_id" /\ doc[key].type = "str"
          THEN ParseObjectId(doc[key]) ELSE doc[key]]

\* "Convert string IDs back to ObjectId": _id, org_id and assessment_id when
\* they are strings; every other value, the dates included, stays as read
\* from the file.
RestoreDoc(doc) ==
    [key \in DOMAIN doc |->
        IF key \in ObjectIdKeys /\ doc[key].type = "str"
          THEN ParseObjectId(doc[key]) ELSE doc[key]]

\* delete_many({}) then insert_many(documents) of the converted documents
RestoreAll(documents) ==
    [i \in DOMAIN documents |-> RestoreDoc(documents[i])]

\* The documents restore_database inserts, per collection, from the
\* backup_data of a file: delete_many({}) then insert_many(documents).
Restored(backup_data) ==
    [organizations |-> RestoreAll(backup_data.collections.organizations),
     profiles |-> RestoreAll(backup_data.collections.profiles),
     assessments |-> RestoreAll(backup_data.collections.assessments),
     compliance_reports |-> RestoreAll(backup_data.collections.compliance_reports)]

\* restore_database(backup_file): backup_file is the position of a backup
\* file, 0 for a path that does not exist; confirmation is what the operator
\* types.
restore_database(backup_file, confirmation) ==
    IF backup_file \notin DOMAIN backup_files
      THEN UNCHANGED <<organizations_col, profiles_col, assessments_col, reports_col>>
    ELSE IF confirmation # "RESTORE"
      THEN UNCHANGED <<organizations_col, profiles_col, assessments_col, reports_col>>
    ELSE LET restored == Restored(backup_files[backup_file])
         IN  /\ organizations_col' = restored.organizations
             /\ profiles_col' = restored.profiles
             /\ assessments_col' = restored.assessments
             /\ reports_col' = restored.compliance_reports

\* DeleteMany deleting the first matching document only.
DeleteMany_FirstOnly(col, org_id) ==
    LET First(k) == /\ col[k].org_id = org_id
                    /\ \A j \in 1..(k - 1) : col[j].org_id # org_id
    IN  [k \in 1..Len(SelectSeq(col, LAMBDA doc : doc.org_id # org_id))
             + (IF \E j \in DOMAIN col : col[j].org_id = org_id
                  THEN Cardinality({ j \in DOMAIN col : col[j].org_id = org_id }) - 1
                  ELSE 0) |->
            LET kept == { j \in DOMAIN col : ~First(j) }
                nth == CHOOSE j \in kept :
                           Cardinality({ i \in kept : i <= j }) = k
            IN  col[nth]]

\* col.delete_many({'org_id': org_id})
DeleteMany(col, org_id) ==
    LET Kept(doc) == doc.org_id # org_id
    IN  SelectSeq(col, Kept)

\* col.delete_one({'_id': id})
DeleteOne(col, id) ==
    LET Kept(doc) == doc._id # id
    IN  SelectSeq(col, Kept)

\* delete_organization(email); confirmation is what the operator types.
delete_organization(email, confirmation) ==
    LET org == FindOneByEmail(organizations_col, email)
    IN  IF org = 0
          THEN UNCHANGED <<organizations_col, profiles_col, assessments_col, reports_col>>
        ELSE IF confirmation # "DELETE"
          THEN UNCHANGED <<organizations_col, profiles_col, assessments_col, reports_col>>
        ELSE LET org_id == organizations_col[org]._id
             IN  /\ organizations_col' = DeleteOne(organizations_col, org_id)
                 /\ profiles_col' = DeleteMany(profiles_col, org_id)
                 /\ assessments_col' = DeleteMany(assessments_col, org_id)
                 /\ reports_col' = DeleteMany(reports_col, org_id)

---------------------------------------------------------------------------
(* GET /api/report/<report_id>, GET /api/report/<report_id>/pdf,           *)
(* GET /api/admin/organizations: none of them writes to the database       *)

\* reports_col.find_one({'_id': ObjectId(report_id), 'org_id': current_org['_id']})
FindReport(current_org, report_id) ==
    { k \in DOMAIN reports_col :
        /\ reports_col[k]._id = ParseObjectId(report_id)
        /\ reports_col[k].org_id = current_org._id }

get_report(current_org, report_id) ==
    /\ response' = IF ParseObjectIdRaises(report_id) THEN 500
                   ELSE IF FindReport(current_org, report_id) = {} THEN 404
                   ELSE 200
    /\ UNCHANGED <<db, store>>

download_report_pdf(current_org, report_id) ==
    /\ response' = IF ParseObjectIdRaises(report_id) THEN 500
                   ELSE IF FindReport(current_org, report_id) = {} THEN 404
                   ELSE 200
    /\ UNCHANGED <<db, store>>

\* The order of sort=[('created_at', -1)] on two values: a date sorts after
\* every string, two dates and two ISO strings by their instant.
SortsAfter(a, b) ==
    IF a.type = b.type
      THEN IF a.type = "datetime" THEN a.value > b.value
                                  ELSE a.value[2] > b.value[2]
      ELSE a.type = "datetime"

\* assessments_col.find_one({'org_id': org_id}, sort=[('created_at', -1)]):
\* the position of the match that sorts last, 0 if none. Every write to the
\* database has an instant of its own, so that no two assessments of one
\* organization carry the same created_at.
FindLatestAssessment(org_id) ==
    LET own == { k \in DOMAIN assessments_col : assessments_col[k].org_id = org_id }
    IN  IF own = {} THEN 0
        ELSE CHOOSE k \in own :
                 \A j \in own \ {k} :
                     SortsAfter(assessments_col[k].created_at,
                                assessments_col[j].created_at)

\* value.isoformat() raises AttributeError on a string
IsoformatRaises(value) == value.type # "datetime"

\* The org_data dictionary of one organization.
org_data(org) ==
    LET latest_assessment == FindLatestAssessment(org._id)
    IN  [id |-> StrOf(org._id),
         organizationName |-> org.organizationName,
         email |-> org.email,
         phone |-> org.phone,
         gstin |-> org.gstin,
         created_at |-> StrOf(org.created_at),
         last_assessment |->
             IF latest_assessment # 0
               THEN StrOf(assessments_col[latest_assessment].created_at)
               ELSE JsonNull,
         compliance_score |->
             IF latest_assessment # 0
               THEN [type |-> "float", value |-> assessments_col[latest_assessment].score]
               ELSE JsonNull,
         status |-> IF latest_assessment # 0
                      THEN assessments_col[latest_assessment].status
                      ELSE "Not Assessed"]

\* Building org_data raises when a created_at it formats is not a datetime.
org_data_raises(org) ==
    \/ IsoformatRaises(org.created_at)
    \/ LET latest_assessment == FindLatestAssessment(org._id)
       IN  /\ latest_assessment # 0
           /\ IsoformatRaises(assessments_col[latest_assessment].created_at)

\* The answer of admin_get_organizations: its status and its JSON list.
admin_organizations(current_org) ==
    LET orgs == SelectSeq(organizations_col, LAMBDA org : org.role = "organization")
    IN  IF current_org.role # "admin"
          THEN [status |-> 403, body |-> <<>>]
        ELSE IF \E k \in DOMAIN orgs : org_data_raises(orgs[k])
          THEN [status |-> 500, body |-> <<>>]
        ELSE [status |-> 200, body |-> [k \in DOMAIN orgs |-> org_data(orgs[k])]]

admin_get_organizations(current_org) ==
    /\ response' = admin_organizations(current_org).status
    /\ UNCHANGED <<db, store>>

---------------------------------------------------------------------------
(* Sessions: several operations, one after the other, on one database *)

\* The most operations of a session that write to the database or to a file.
MaxOps == 3

\* The profile bodies of a session: one scoring 14, one scoring 2, and null.
SessionProfileBodies ==
    { ProfileBody([dataVolume |-> JsonStr("more_than_1_million"),
                   employeeCount |-> AbsentField,
                   sensitiveData |-> JsonStr("Yes"),
                   dataTypes |-> JsonList(<<"Children Data">>),
                   crossBorderTransfer |-> AbsentField]),
      ProfileBody([dataVolume |-> JsonStr("10k_to_100k"),
                   employeeCount |-> AbsentField,
                   sensitiveData |-> JsonStr("No"),
                   dataTypes |-> AbsentField,
                   crossBorderTransfer |-> AbsentField]),
      JsonNull }

\* The assessment bodies of a session: every key "Yes", every key "Partial",
\* and null.
SessionAssessmentBodies ==
    { JsonDict("answers" :> LayoutAnswers([i \in DOMAIN AnswerKeys |-> v])) :
        v \in {"Yes", "Partial"} }
    \cup {JsonNull}

\* The register bodies of a session: a complete one and one without email.
RegisterBodies ==
    { JsonDict([organizationName |-> "Acme", email |-> "dpo@acme.example",
                phone |-> "+91-1111111111", gstin |-> "29AAAAA0000A1Z5",
                password |-> "secret"]),
      JsonDict([organizationName |-> "Acme", phone |-> "+91-1111111111",
                gstin |-> "29AAAAA0000A1Z5", password |-> "secret"]) }

\* The report ids of a request: the id of a stored report, the id of no
\* report, and a string that spells no ObjectId.
ReportIds ==
    { StrOf(reports_col[k]._id) : k \in DOMAIN reports_col }
    \cup { StrOf(ObjectId(0)), [type |-> "str", value |-> <<"text", 0>>] }

\* The time of the next operation: it advances when the operation wrote.
Tick ==
    clock' = IF <<db, store>>' = <<db, store>> THEN clock ELSE clock + 1

Register ==
    /\ clock <= MaxOps
    /\ \E body \in RegisterBodies :
          /\ register(body)
          /\ data' = body
    /\ pc' = "register"
    /\ UNCHANGED <<locals, profiles_col, assessments_col, reports_col, backup_files>>
    /\ UNCHANGED concurrent
    /\ Tick

SaveProfile ==
    /\ clock <= MaxOps
    /\ \E i \in DOMAIN organizations_col, body \in SessionProfileBodies :
          /\ save_profile(organizations_col[i], body)
          /\ data' = body
    /\ pc' = "save_profile"
    /\ UNCHANGED <<answers, score_result, recommendations, score, status, risk, store>>
    /\ UNCHANGED concurrent
    /\ Tick

SubmitAssessment ==
    /\ clock <= MaxOps
    /\ \E i \in DOMAIN organizations_col, body \in SessionAssessmentBodies :
          /\ submit_assessment(organizations_col[i], body)
          /\ data' = body
    /\ pc' = "submit_assessment"
    /\ UNCHANGED <<sdf_score, is_sdf, store>>
    /\ UNCHANGED concurrent
    /\ Tick

GetReport ==
    /\ \E i \in DOMAIN organizations_col, report_id \in ReportIds :
          get_report(organizations_col[i], report_id)
    /\ pc' = "get_report"
    /\ UNCHANGED <<data, locals, clock>>
    /\ UNCHANGED concurrent

DownloadReportPdf ==
    /\ \E i \in DOMAIN organizations_col, report_id \in ReportIds :
          download_report_pdf(organizations_col[i], report_id)
    /\ pc' = "download_report_pdf"
    /\ UNCHANGED <<data, locals, clock>>
    /\ UNCHANGED concurrent

AdminGetOrganizations ==
    /\ \E i \in DOMAIN organizations_col :
          admin_get_organizations(organizations_col[i])
    /\ pc' = "admin_get_organizations"
    /\ UNCHANGED <<data, locals, clock>>
    /\ UNCHANGED concurrent

\* The requests the started application handles, one after the other.
InitHandlers ==
    /\ pc = "started"
    /\ AppStarted

NextHandlers ==
    \/ Register
    \/ SaveProfile
    \/ SubmitAssessment
    \/ GetReport
    \/ DownloadReportPdf
    \/ AdminGetOrganizations

SpecHandlers == InitHandlers /\ [][NextHandlers]_vars

\* The database scripts, run by an operator next to the application's
\* save_profile and submit_assessment.
SetupDatabase ==
    /\ clock <= MaxOps
    /\ setup_database
    /\ pc' = "setup_database"
    /\ UNCHANGED <<data, locals, response, assessments_col, reports_col, backup_files>>
    /\ UNCHANGED concurrent
    /\ Tick

AddSampleAssessments ==
    /\ clock <= MaxOps
    /\ add_sample_assessments
    /\ pc' = "add_sample_assessments"
    /\ UNCHANGED <<data, locals, response, profiles_col, store>>
    /\ UNCHANGED concurrent
    /\ Tick

BackupDatabase ==
    /\ clock <= MaxOps
    /\ backup_database
    /\ pc' = "backup_database"
    /\ UNCHANGED <<data, locals, response, db, organizations_col>>
    /\ UNCHANGED concurrent
    /\ Tick

RestoreDatabase ==
    /\ clock <= MaxOps
    /\ \E backup_file \in DOMAIN backup_files \cup {0},
          confirmation \in {"RESTORE", "no"} :
          /\ restore_database(backup_file, confirmation)
          /\ data' = [backup_file |-> backup_file, confirmation |-> confirmation]
    /\ pc' = "restore_database"
    /\ UNCHANGED <<locals, response, next_id, backup_files>>
    /\ UNCHANGED concurrent
    /\ Tick

DeleteOrganization ==
    /\ clock <= MaxOps
    /\ \E email \in {"admin@dpdp.com", "test@company.com", "nobody@example.com"},
          confirmation \in {"DELETE", "no"} :
          /\ delete_organization(email, confirmation)
          /\ data' = [email |-> email, confirmation |-> confirmation]
    /\ pc' = "delete_organization"
    /\ UNCHANGED <<locals, response, next_id, backup_files>>
    /\ UNCHANGED concurrent
    /\ Tick

InitScripts ==
    /\ pc = "started"
    /\ AppStarted

NextScripts ==
    \/ SetupDatabase
    \/ AddSampleAssessments
    \/ SaveProfile
    \/ SubmitAssessment
    \/ BackupDatabase
    \/ RestoreDatabase
    \/ DeleteOrganization
    \/ AdminGetOrganizations

SpecScripts == InitScripts /\ [][NextScripts]_vars

---------------------------------------------------------------------------
(* Concurrent POST /api/profile requests *)

\* The application serves each request on its own thread.  A thread runs
\* save_profile up to its update_one; the server then matches the filter
\* {'org_id': org_id} and, as a later step, updates the matched document or
\* inserts a new one.  The database makes a single document's write atomic,
\* not the match and the insert of an upsert together: only a unique index
\* on org_id refuses the second insert.  The application creates the index
\* without unique (profiles_col.create_index('org_id')), setup_database with
\* unique=True; the index the database has is the one created first.

\* The most save_profile requests in progress at the same time.
MaxRequests == 2

Requests == 1..MaxRequests

\* A thread that has received no request.
IdleThread ==
    [pc |-> "idle", org_id |-> ObjectId(0), profile_doc |-> <<>>,
     matched |-> 0, response |-> 0]

\* save_profile up to its update_one: the score, the document; 500 if the
\* scoring raises.
BeginSave(r) ==
    /\ threads[r].pc = "idle"
    /\ \E i \in DOMAIN organizations_col, body \in SessionProfileBodies :
          threads' = [threads EXCEPT ![r] =
              IF calculate_sdf_score_raises(body)
                THEN [@ EXCEPT !.pc = "done", !.response = 500]
                ELSE [@ EXCEPT !.pc = "update_one",
                               !.org_id = organizations_col[i]._id,
                               !.profile_doc =
                                   profile_doc(organizations_col[i]._id, body, clock)]]
    /\ clock' = clock + 1
    /\ UNCHANGED <<pc, data, locals, response, db, store, profiles_unique>>

\* The server looks for a document that matches the filter of the update.
MatchProfile(r) ==
    /\ threads[r].pc = "update_one"
    /\ threads' = [threads EXCEPT ![r] =
           [@ EXCEPT !.pc = "write",
                     !.matched = FindOne(profiles_col, threads[r].org_id)]]
    /\ UNCHANGED <<pc, data, locals, response, db, clock, store, profiles_unique>>

\* The server writes: $set on the matched document, or the insert of the
\* upsert.  Under a unique index an insert that meets a document of the same
\* org_id is refused: the server then applies the update to that document or
\* the request fails with DuplicateKeyError (500).
WriteProfile(r) ==
    /\ threads[r].pc = "write"
    /\ LET doc == threads[r].profile_doc
           now == FindOne(profiles_col, threads[r].org_id)
           Update(k) == [profiles_col EXCEPT ![k] = [_id |-> profiles_col[k]._id] @@ doc]
       IN  IF threads[r].matched # 0
             THEN /\ profiles_col' = Update(threads[r].matched)
                  /\ threads' = [threads EXCEPT ![r] =
                         [@ EXCEPT !.pc = "done", !.response = 200]]
                  /\ UNCHANGED next_id
           ELSE IF profiles_unique /\ now # 0
             THEN \/ /\ profiles_col' = Update(now)
                     /\ threads' = [threads EXCEPT ![r] =
                            [@ EXCEPT !.pc = "done", !.response = 200]]
                     /\ UNCHANGED next_id
                  \/ /\ threads' = [threads EXCEPT ![r] =
                            [@ EXCEPT !.pc = "done", !.response = 500]]
                     /\ UNCHANGED <<profiles_col, next_id>>
           ELSE /\ profiles_col' = InsertOne(profiles_col, doc, ObjectId(next_id))
                /\ next_id' = next_id + 1
                /\ threads' = [threads EXCEPT ![r] =
                       [@ EXCEPT !.pc = "done", !.response = 200]]
    /\ UNCHANGED <<pc, data, locals, response, assessments_col, reports_col,
                   clock, store, profiles_unique>>

\* The started application, its profiles index unique or not, no request
\* received yet.
InitRace ==
    /\ pc = "started"
    /\ organizations_col = InsertOne(<<>>, AppAdminDoc(0), ObjectId(1))
    /\ profiles_col = <<>>
    /\ assessments_col = <<>>
    /\ reports_col = <<>>
    /\ next_id = 2
    /\ clock = 1
    /\ backup_files = <<>>
    /\ threads = [r \in Requests |-> IdleThread]
    /\ profiles_unique \in BOOLEAN
    /\ data = Unset
    /\ answers = Unset
    /\ score_result = Unset
    /\ recommendations = Unset
    /\ score = Unset
    /\ status = Unset
    /\ risk = Unset
    /\ sdf_score = Unset
    /\ is_sdf = Unset
    /\ response = Unset

NextRace ==
    \/ Register
    \/ \E r \in Requests : BeginSave(r)
    \/ \E r \in Requests : MatchProfile(r)
    \/ \E r \in Requests : WriteProfile(r)

SpecRace == InitRace /\ [][NextRace]_vars

---------------------------------------------------------------------------
(* register requests and application starts in progress at the same time   *)

\* A register request reads organizations with find_one and writes with
\* insert_one: two requests of the server, and the start of a second
\* application process on the same database, may read before either has
\* written.  The database applies each find_one and each insert_one at one
\* instant, and an insert_one that meets a document with the same key of a
\* unique index raises DuplicateKeyError.

\* organizations_col.create_index('email', unique=True) with unique off.
organizations_email_unique_Off == FALSE

\* organizations_col.create_index('email', unique=True): whether the index
\* on email is unique.  It is created when the module is loaded, before the
\* admin creation and before any request.
organizations_email_unique == TRUE

\* The most register requests in progress at the same time.
MaxRegistrations == 2

\* The most application processes starting on the database.
MaxStarts == 2

Registrations == 1..MaxRegistrations

Starts == (MaxRegistrations + 1)..(MaxRegistrations + MaxStarts)

\* The register bodies of the requests: those of a session, and one with
\* the admin email.
RacingRegisterBodies ==
    RegisterBodies
    \cup { JsonDict([organizationName |-> "Acme", email |-> "admin@dpdp.com",
                     phone |-> "+91-1111111111", gstin |-> "29AAAAA0000A1Z5",
                     password |-> "secret"]) }

\* A thread that has received no request, a process that has not started.
IdleRegistration ==
    [pc |-> "idle", request_json |-> JsonNull, doc |-> <<>>, response |-> 0,
     token |-> JsonNull]

\* insert_one raises DuplicateKeyError
InsertOneRaises(col, doc) ==
    /\ organizations_email_unique
    /\ FindOneByEmail(col, doc.email) # 0

\* register up to its insert_one: the validation and the find_one.
BeginRegister(r) ==
    /\ threads[r].pc = "idle"
    /\ \E request_json \in RacingRegisterBodies :
          threads' = [threads EXCEPT ![r] =
              IF MissingField(request_json)
                THEN [@ EXCEPT !.pc = "done", !.request_json = request_json,
                               !.response = 400]
              ELSE IF FindOneByEmail(organizations_col, request_json.value.email) # 0
                THEN [@ EXCEPT !.pc = "done", !.request_json = request_json,
                               !.response = 400]
              ELSE [@ EXCEPT !.pc = "insert_one", !.request_json = request_json,
                             !.doc = org_doc(request_json, clock)]]
    /\ UNCHANGED <<pc, data, locals, response, db, clock, store, profiles_unique>>

\* register from its insert_one: 201 with a token for the inserted id, or
\* 500 from the except clause.
InsertRegistered(r) ==
    /\ threads[r].pc = "insert_one"
    /\ IF InsertOneRaises(organizations_col, threads[r].doc)
         THEN /\ threads' = [threads EXCEPT ![r] =
                     [@ EXCEPT !.pc = "done", !.response = 500]]
              /\ UNCHANGED <<organizations_col, next_id>>
         ELSE /\ organizations_col' =
                     InsertOne(organizations_col, threads[r].doc, ObjectId(next_id))
              /\ next_id' = next_id + 1
              /\ threads' = [threads EXCEPT ![r] =
                     [@ EXCEPT !.pc = "done", !.response = 201,
                               !.token = StrOf(ObjectId(next_id))]]
    /\ clock' = IF organizations_col' = organizations_col THEN clock ELSE clock + 1
    /\ UNCHANGED <<pc, data, locals, response, profiles_col, assessments_col,
                   reports_col, backup_files, profiles_unique>>

\* The start of the application up to its insert_one: the find_one of the
\* admin email.
BeginStart(p) ==
    /\ threads[p].pc = "idle"
    /\ threads' = [threads EXCEPT ![p] =
           IF FindOneByEmail(organizations_col, "admin@dpdp.com") # 0
             THEN [@ EXCEPT !.pc = "done"]
             ELSE [@ EXCEPT !.pc = "insert_one", !.doc = AppAdminDoc(clock)]]
    /\ UNCHANGED <<pc, data, locals, response, db, clock, store, profiles_unique>>

\* The insert_one of the start: the admin organization is stored, or the
\* process ends with DuplicateKeyError.
InsertAdmin(p) ==
    /\ threads[p].pc = "insert_one"
    /\ IF InsertOneRaises(organizations_col, threads[p].doc)
         THEN /\ threads' = [threads EXCEPT ![p] = [@ EXCEPT !.pc = "raised"]]
              /\ UNCHANGED <<organizations_col, next_id>>
         ELSE /\ organizations_col' =
                     InsertOne(organizations_col, threads[p].doc, ObjectId(next_id))
              /\ next_id' = next_id + 1
              /\ threads' = [threads EXCEPT ![p] = [@ EXCEPT !.pc = "done"]]
    /\ clock' = IF organizations_col' = organizations_col THEN clock ELSE clock + 1
    /\ UNCHANGED <<pc, data, locals, response, profiles_col, assessments_col,
                   reports_col, backup_files, profiles_unique>>

\* An empty database with the unique index on email, no process started and
\* no request received.
InitRegistrations ==
    /\ pc = "loaded"
    /\ organizations_col = <<>>
    /\ profiles_col = <<>>
    /\ assessments_col = <<>>
    /\ reports_col = <<>>
    /\ next_id = 1
    /\ clock = 0
    /\ backup_files = <<>>
    /\ threads = [r \in Registrations \cup Starts |-> IdleRegistration]
    /\ profiles_unique = FALSE
    /\ data = Unset
    /\ answers = Unset
    /\ score_result = Unset
    /\ recommendations = Unset
    /\ score = Unset
    /\ status = Unset
    /\ risk = Unset
    /\ sdf_score = Unset
    /\ is_sdf = Unset
    /\ response = Unset

NextRegistrations ==
    \/ \E r \in Registrations : BeginRegister(r)
    \/ \E r \in Registrations : InsertRegistered(r)
    \/ \E p \in Starts : BeginStart(p)
    \/ \E p \in Starts : InsertAdmin(p)

SpecRegistrations == InitRegistrations /\ [][NextRegistrations]_vars

---------------------------------------------------------------------------
(* Concurrent calls of calculate_compliance_score and                      *)
(* generate_recommendations                                                *)

\* Each thread calls calculate_compliance_score and then
\* generate_recommendations on its own answers, as submit_assessment does;
\* the threads take turns between any two passes of a loop.  The locals of a
\* call (total_possible, total_earned, category_scores; recommendations) live
\* in the frame of the call.

\* The most calls in progress at the same time.
MaxCallers == 2

Callers == 1..MaxCallers

\* The answers the callers pass, and the assignments of answers to callers:
\* the callers being interchangeable, the callers of the first answers come
\* first.
CallArguments ==
    << JsonDict([q1 |-> "Yes", q2 |-> "Partial", q3 |-> "No"]),
       JsonDict([q2 |-> "Yes", q25 |-> "Partial"]) >>

CallAssignments ==
    { f \in [Callers -> DOMAIN CallArguments] :
        \A c1, c2 \in Callers : c1 <= c2 => f[c1] <= f[c2] }

\* ScopeOf with the locals held at module level: one frame for all calls.
ScopeOf_Module(c) == 1

\* The frame that holds the locals of call c: its own.
ScopeOf(c) == c

\* A caller about to call calculate_compliance_score(ans).
CallStart(ans) ==
    [pc |-> "score", answers |-> ans, i |-> 1,
     acc |-> ScoreStart, recs |-> <<>>,
     score_result |-> <<>>, recommendations |-> <<>>]

\* One pass of the loop of calculate_compliance_score.
ScoreQuestion(c) ==
    /\ threads[c].pc = "score"
    /\ threads[c].i <= Len(get_assessment_questions)
    /\ threads' = [threads EXCEPT
           ![ScopeOf(c)].acc = ScoreStep(@, get_assessment_questions[threads[c].i],
                                         threads[c].answers),
           ![c].i = @ + 1]
    /\ UNCHANGED <<pc, data, locals, response, db, clock, store, profiles_unique>>

\* calculate_compliance_score returns; generate_recommendations is called.
ReturnScore(c) ==
    /\ threads[c].pc = "score"
    /\ threads[c].i > Len(get_assessment_questions)
    /\ threads' = [threads EXCEPT
           ![c].score_result = ScoreReturn(threads[ScopeOf(c)].acc),
           ![c].pc = "recommend",
           ![c].i = 1]
    /\ UNCHANGED <<pc, data, locals, response, db, clock, store, profiles_unique>>

\* One pass of the loop of generate_recommendations.
RecommendQuestion(c) ==
    /\ threads[c].pc = "recommend"
    /\ threads[c].i <= Len(get_assessment_questions)
    /\ threads' = [threads EXCEPT
           ![ScopeOf(c)].recs = RecommendStep(@, get_assessment_questions[threads[c].i],
                                              threads[c].answers),
           ![c].i = @ + 1]
    /\ UNCHANGED <<pc, data, locals, response, db, clock, store, profiles_unique>>

\* recommendations.sort(...); return recommendations[:10]
ReturnRecommendations(c) ==
    /\ threads[c].pc = "recommend"
    /\ threads[c].i > Len(get_assessment_questions)
    /\ threads' = [threads EXCEPT
           ![c].recommendations = Take(SortByPriority(threads[ScopeOf(c)].recs), 10),
           ![c].pc = "done"]
    /\ UNCHANGED <<pc, data, locals, response, db, clock, store, profiles_unique>>

InitCalls ==
    /\ pc = "started"
    /\ threads \in { [c \in Callers |-> CallStart(CallArguments[f[c]])] :
                        f \in CallAssignments }
    /\ profiles_unique = FALSE
    /\ organizations_col = <<>>
    /\ profiles_col = <<>>
    /\ assessments_col = <<>>
    /\ reports_col = <<>>
    /\ next_id = 1
    /\ clock = 1
    /\ backup_files = <<>>
    /\ data = Unset
    /\ answers = Unset
    /\ score_result = Unset
    /\ recommendations = Unset
    /\ score = Unset
    /\ status = Unset
    /\ risk = Unset
    /\ sdf_score = Unset
    /\ is_sdf = Unset
    /\ response = Unset

NextCalls ==
    \/ \E c \in Callers : ScoreQuestion(c)
    \/ \E c \in Callers : ReturnScore(c)
    \/ \E c \in Callers : RecommendQuestion(c)
    \/ \E c \in Callers : ReturnRecommendations(c)

SpecCalls == InitCalls /\ [][NextCalls]_vars

---------------------------------------------------------------------------
(* One answer raised: an answers object and the same object with a better  *)
(* answer to one catalog question, both assessed                            *)

\* The most runs of the answers that the two objects share.
MaxRaiseRuns == 1

\* The place of an answer in the order (absent, unrecognized, "No") <
\* "Partial" < "Yes".
AnswerRank(v) == IF v = "Yes" THEN 2 ELSE IF v = "Partial" THEN 1 ELSE 0

\* The pairs of layouts that differ at one catalog question, the second
\* holding the better answer there.
RaisedPairs ==
    { <<[context EXCEPT ![i] = lower], [context EXCEPT ![i] = better]>> :
        <<context, i, lower, better>> \in
            { t \in RunLayouts(Len(AnswerKeys), MaxRaiseRuns)
                    \X (1..Len(get_assessment_questions))
                    \X (AnswerValues \cup {Absent})
                    \X {"Partial", "Yes"} :
                AnswerRank(t[3]) < AnswerRank(t[4]) } }

\* An assessment that has not begun: the answers it is given.
AssessmentOf(ans) ==
    [pc |-> "idle", answers |-> ans, score_result |-> Unset,
     status |-> Unset, risk |-> Unset, recommendations |-> Unset]

\* The assessment of one answers object, the two objects one after the
\* other: the score, the band chosen from the percentage, and the
\* recommendation entries before the sort and the cut.
Assess(c) ==
    /\ threads[c].pc = "idle"
    /\ \A b \in 1..(c - 1) : threads[b].pc = "done"
    /\ LET result == calculate_compliance_score(threads[c].answers)
           band == StatusRisk(result.percentage)
       IN  threads' = [threads EXCEPT ![c] =
               [@ EXCEPT !.pc = "done",
                         !.score_result = result,
                         !.status = band.status,
                         !.risk = band.risk,
                         !.recommendations =
                             RecommendLoop(<<>>, 1, threads[c].answers)]]
    /\ UNCHANGED <<pc, data, locals, response, db, clock, store, profiles_unique>>

InitRaise ==
    /\ pc = "raise"
    /\ \E pair \in RaisedPairs :
          threads = <<AssessmentOf(LayoutAnswers(pair[1])),
                      AssessmentOf(LayoutAnswers(pair[2]))>>
    /\ profiles_unique = FALSE
    /\ organizations_col = <<RequestOrg>>
    /\ profiles_col = <<>>
    /\ assessments_col = <<>>
    /\ reports_col = <<>>
    /\ next_id = 1
    /\ clock = 0
    /\ backup_files = <<>>
    /\ data = Unset
    /\ answers = Unset
    /\ score_result = Unset
    /\ recommendations = Unset
    /\ score = Unset
    /\ status = Unset
    /\ risk = Unset
    /\ sdf_score = Unset
    /\ is_sdf = Unset
    /\ response = Unset

NextRaise == \E c \in 1..2 : Assess(c)

SpecRaise == InitRaise /\ [][NextRaise]_vars

---------------------------------------------------------------------------
(* Vocabulary of the properties *)

Catalog == get_assessment_questions
CatalogIndex == 1..Len(Catalog)

\* submit_assessment has answered 200: its locals hold what the functions returned.
Scored == pc = "done" /\ response = 200

\* What the answers object holds for a key; Absent if it does not hold the key.
Given(key) ==
    IF key \in DOMAIN answers.value THEN answers.value[key] ELSE Absent

\* The entry of catalog question i with the given priority.
Entry(i, priority) ==
    [action |-> Catalog[i].recommendation,
     category |-> Catalog[i].category,
     priority |-> priority]

\* The catalog questions, in catalog order, that pass a test.
IndexSeq == [i \in CatalogIndex |-> i]

\* The sum of the weights of the catalog.
RECURSIVE WeightSum(_)
WeightSum(i) == IF i = 0 THEN 0 ELSE WeightSum(i - 1) + Catalog[i].weight

---------------------------------------------------------------------------
(* C1 *)

AllNoOrAbsent == \A i \in CatalogIndex : Given(Catalog[i].id) \in {"No", Absent}

\* C1: when every catalog question is answered "No" or is absent, the
\* percentage is 0.00 and the recommendations are exactly those of q1..q10 in
\* catalog order, each with priority "High".
C1_AllNo ==
    (Scored /\ AllNoOrAbsent) =>
        /\ score_result.percentage = 0
        /\ recommendations = [i \in 1..10 |-> Entry(i, "High")]

\* Some questions answered "No", the others absent, and the request answered.
C1_Witness ==
    /\ Scored /\ AllNoOrAbsent
    /\ \E i \in CatalogIndex : Given(Catalog[i].id) = "No"
    /\ \E i \in CatalogIndex : Given(Catalog[i].id) = Absent
    /\ Len(recommendations) = 10

---------------------------------------------------------------------------
(* C2 *)

AllYes == \A i \in CatalogIndex : Given(Catalog[i].id) = "Yes"

\* C2: when every catalog question is answered "Yes", whatever other keys the
\* answers hold, the percentage is 100.00 and there is no recommendation.
C2_AllYes ==
    (Scored /\ AllYes) =>
        /\ score_result.percentage = 10000
        /\ recommendations = <<>>

\* All catalog questions "Yes" and a non-catalog key holding another value.
C2_Witness ==
    /\ Scored /\ AllYes
    /\ Given(UnknownId) \notin {"Yes", Absent}
    /\ recommendations = <<>>

---------------------------------------------------------------------------
(* C3 *)

\* C3: a returned entry of a question whose answer is "No", absent or no
\* literal at all has priority "High", one of a question answered "Partial"
\* has priority "Medium".
C3_UnrecognizedIsHigh ==
    Scored =>
        \A k \in DOMAIN recommendations : \A i \in CatalogIndex :
            recommendations[k].action = Catalog[i].recommendation =>
                recommendations[k].priority =
                    IF Given(Catalog[i].id) = "Partial" THEN "Medium" ELSE "High"

---------------------------------------------------------------------------
(* C4 *)

\* The priority the ranker gives question i, "None" if it emits no entry.
Emitted(i) ==
    LET answer == IF Given(Catalog[i].id) = Absent THEN "No" ELSE Given(Catalog[i].id)
    IN  IF answer = "Yes" THEN "None" ELSE Priority(answer)

\* The entries of the given priority, in catalog order.
EntriesOf(priority) ==
    LET Has(i) == Emitted(i) = priority
        idx == SelectSeq(IndexSeq, Has)
    IN  [k \in DOMAIN idx |-> Entry(idx[k], priority)]

\* C4: the recommendations are the first 10 of: the High entries in catalog
\* order, then the Medium entries in catalog order.
C4_StableOrder ==
    Scored =>
        recommendations = Take(EntriesOf("High") \o EntriesOf("Medium"), 10)

\* A Medium entry's question precedes a High entry's question in the catalog,
\* both are returned, and several entries share each priority.
C4_Witness ==
    /\ Scored
    /\ Len(recommendations) = 10
    /\ Emitted(1) = "Medium"
    /\ recommendations[1].priority = "High"
    /\ recommendations[2].priority = "High"
    /\ recommendations[9].priority = "Medium"
    /\ recommendations[10].priority = "Medium"

---------------------------------------------------------------------------
(* C5 *)

NotYes == { i \in CatalogIndex : Given(Catalog[i].id) # "Yes" }
Highs == { i \in CatalogIndex : Emitted(i) = "High" }

\* C5: min(10, n) entries are returned, n the number of catalog questions not
\* answered "Yes"; a Medium entry is returned only when fewer than 10
\* questions gave a High entry.
C5_Truncation ==
    Scored =>
        /\ Len(recommendations) <= 10
        /\ Len(recommendations) =
               IF Cardinality(NotYes) < 10 THEN Cardinality(NotYes) ELSE 10
        /\ (\E k \in DOMAIN recommendations : recommendations[k].priority = "Medium")
               => Cardinality(Highs) < 10

\* More than 10 entries emitted, fewer than 10 of them High: the list is cut
\* in the Medium entries.
C5_Witness ==
    /\ Scored
    /\ Cardinality(NotYes) > 10
    /\ Cardinality(Highs) \in 1..9
    /\ Len(recommendations) = 10
    /\ recommendations[10].priority = "Medium"

---------------------------------------------------------------------------
(* C6 *)

\* The credit of question i, in half points.
Credit(i) ==
    CASE Given(Catalog[i].id) = "Yes" -> 2 * Catalog[i].weight
      [] Given(Catalog[i].id) = "Partial" -> Catalog[i].weight
      [] OTHER -> 0

RECURSIVE CreditSum(_)
CreditSum(i) == IF i = 0 THEN 0 ELSE CreditSum(i - 1) + Credit(i)

\* The answers reduced to the catalog ids, anything but "Yes" and "Partial"
\* written as "No".
Normalized ==
    JsonDict([key \in { Catalog[i].id : i \in CatalogIndex } |->
                 IF Given(key) \in {"Yes", "Partial"} THEN Given(key) ELSE "No"])

\* C6: the total earned is the sum of full weight per "Yes" and half weight
\* per "Partial", and the whole result is that of the answers reduced to the
\* catalog ids with every other value written as "No".
C6_Credits ==
    Scored =>
        /\ score_result.total_earned = CreditSum(Len(Catalog))
        /\ score_result = calculate_compliance_score(Normalized)

\* A non-catalog key, a value that is no literal, and some credit earned.
C6_Witness ==
    /\ Scored
    /\ Given(UnknownId) # Absent
    /\ \E i \in CatalogIndex : Given(Catalog[i].id) = "Maybe"
    /\ \E i \in CatalogIndex : Given(Catalog[i].id) = "Partial"
    /\ score_result.total_earned > 0

---------------------------------------------------------------------------
(* C10 *)

\* C10: the overall and the category percentages lie in [0, 100], a
\* category's earned lies between 0 and its possible, and total_possible is
\* the sum of the catalog weights, which is positive.
C10_Ranges ==
    Scored =>
        /\ score_result.percentage \in 0..10000
        /\ \A cat \in DOMAIN score_result.category_scores :
              LET c == score_result.category_scores[cat]
              IN  /\ 0 <= c.earned /\ c.earned <= 2 * c.possible
                  /\ c.percentage.den > 0
                  /\ 0 <= c.percentage.num
                  /\ c.percentage.num <= 100 * c.percentage.den
        /\ score_result.total_possible = WeightSum(Len(Catalog))
        /\ score_result.total_possible > 0

\* One category at 100 percent, another at 0, the overall score in between.
C10_Witness ==
    /\ Scored
    /\ \E cat \in DOMAIN score_result.category_scores :
           score_result.category_scores[cat].earned =
               2 * score_result.category_scores[cat].possible
    /\ \E cat \in DOMAIN score_result.category_scores :
           score_result.category_scores[cat].earned = 0
    /\ score_result.percentage \in 1..9999

---------------------------------------------------------------------------
(* C7 *)

\* The band table has been applied to the score.
Classified == pc = "done"

\* C7: every score has exactly one band, lower bounds inclusive: from 80.00
\* ("Fully Compliant", "Low"), from 50.00 below 80.00 ("Partially Compliant",
\* "Medium"), below 50.00 ("Non-Compliant", "High").
C7_Bands ==
    Classified =>
        /\ (score >= 8000) <=> (status = "Fully Compliant" /\ risk = "Low")
        /\ (score >= 5000 /\ score < 8000)
               <=> (status = "Partially Compliant" /\ risk = "Medium")
        /\ (score < 5000) <=> (status = "Non-Compliant" /\ risk = "High")
        /\ score = 4999 => status = "Non-Compliant"
        /\ score = 5000 => status = "Partially Compliant"
        /\ score = 7999 => status = "Partially Compliant"
        /\ score = 8000 => status = "Fully Compliant"

\* The score 80.00, on the boundary, classified.
C7_Witness ==
    /\ Classified
    /\ score = 8000
    /\ status = "Fully Compliant" /\ risk = "Low"

---------------------------------------------------------------------------
(* C8 *)

\* save_profile has answered 200.
Saved == pc = "done" /\ response = 200

\* The string the body holds for a field, "" if it holds none.
Field(name) ==
    IF name \in DOMAIN data.value /\ data.value[name].type = "str"
      THEN data.value[name].value ELSE ""

\* The tags of the body's dataTypes list.
Tags ==
    IF "dataTypes" \in DOMAIN data.value /\ data.value["dataTypes"].type = "list"
      THEN { data.value["dataTypes"].value[i] : i \in DOMAIN data.value["dataTypes"].value }
      ELSE {}

\* The body's dataTypes is a list of tags, or absent.
WellFormedDataTypes ==
    /\ data.type = "dict"
    /\ "dataTypes" \in DOMAIN data.value => data.value["dataTypes"].type = "list"

Contribution ==
    [dataVolume |->
         CASE Field("dataVolume") = "more_than_1_million" -> 5
           [] Field("dataVolume") = "100k_to_1_million" -> 3
           [] Field("dataVolume") = "10k_to_100k" -> 2
           [] OTHER -> 0,
     employeeCount |->
         CASE Field("employeeCount") = "more_than_500" -> 3
           [] Field("employeeCount") = "100_to_500" -> 2
           [] OTHER -> 0,
     sensitiveData |-> IF Field("sensitiveData") = "Yes" THEN 4 ELSE 0,
     dataTypes |-> IF "Children Data" \in Tags THEN 5 ELSE 0,
     crossBorderTransfer |-> IF Field("crossBorderTransfer") = "Yes" THEN 3 ELSE 0]

AllMaximal ==
    /\ Field("dataVolume") = "more_than_1_million"
    /\ Field("employeeCount") = "more_than_500"
    /\ Field("sensitiveData") = "Yes"
    /\ "Children Data" \in Tags
    /\ Field("crossBorderTransfer") = "Yes"

\* C8: for a profile whose dataTypes is a list or absent, the SDF score is the
\* sum of the five contributions, an integer in 0..20, 20 for the all-maximal
\* profile and 0 for the empty one, and is_sdf holds exactly from 10 on.
C8_SdfScore ==
    (pc = "done" /\ WellFormedDataTypes) =>
        /\ response = 200
        /\ sdf_score = Contribution.dataVolume + Contribution.employeeCount
                       + Contribution.sensitiveData + Contribution.dataTypes
                       + Contribution.crossBorderTransfer
        /\ sdf_score \in 0..20
        /\ AllMaximal => sdf_score = 20 /\ is_sdf = TRUE
        /\ DOMAIN data.value = {} => sdf_score = 0 /\ is_sdf = FALSE
        /\ is_sdf = (sdf_score >= 10)

\* A profile scoring exactly 10: the lowest score classified as SDF.
C8_Witness ==
    /\ Saved
    /\ sdf_score = 10
    /\ is_sdf = TRUE
    /\ "Children Data" \in Tags

---------------------------------------------------------------------------
(* C9 *)

\* C9: whatever the body, the handler answers 200: no field that is absent,
\* null or unexpected makes the scoring raise.
C9_NeverRaises ==
    pc = "done" => response = 200

---------------------------------------------------------------------------
(* C11 *)

CatalogCategories == { Catalog[i].category : i \in CatalogIndex }

\* What holds of the catalog whatever its number of categories: 25 questions,
\* pairwise distinct ids, positive weights, and the scorer and the ranker of
\* one request reading the same sequence.
CatalogShape ==
    /\ Len(Catalog) = 25
    /\ \A i, j \in CatalogIndex : Catalog[i].id = Catalog[j].id => i = j
    /\ \A i \in CatalogIndex : Catalog[i].weight > 0
    /\ Scored =>
          /\ DOMAIN score_result.category_scores = CatalogCategories
          /\ \A k \in DOMAIN recommendations :
                \E i \in CatalogIndex :
                    /\ recommendations[k].action = Catalog[i].recommendation
                    /\ recommendations[k].category = Catalog[i].category

\* C11 as stated: the catalog is a fixed sequence of 25 questions spanning 11
\* categories, with distinct ids and positive weights.
C11_ElevenCategories ==
    /\ CatalogShape
    /\ Cardinality(CatalogCategories) = 11

\* C11 as amended: the same, the catalog spanning 13 categories.
C11_Catalog ==
    /\ CatalogShape
    /\ Cardinality(CatalogCategories) = 13

\* A request scored over all 13 categories, with recommendations returned.
C11_Witness ==
    /\ Scored
    /\ Cardinality(DOMAIN score_result.category_scores) = 13
    /\ Len(recommendations) = 10

---------------------------------------------------------------------------
(* C12 *)

\* The catalog questions of a category.
QuestionsOf(cat) == { i \in CatalogIndex : Catalog[i].category = cat }

\* The sum of the weights, and of the credits (in half points), of the
\* questions of a category among the first i of the catalog.
RECURSIVE CategoryWeightSum(_, _)
CategoryWeightSum(cat, i) ==
    IF i = 0 THEN 0
    ELSE CategoryWeightSum(cat, i - 1)
         + (IF i \in QuestionsOf(cat) THEN Catalog[i].weight ELSE 0)

RECURSIVE CategoryCreditSum(_, _)
CategoryCreditSum(cat, i) ==
    IF i = 0 THEN 0
    ELSE CategoryCreditSum(cat, i - 1)
         + (IF i \in QuestionsOf(cat) THEN Credit(i) ELSE 0)

\* The sum of a field over the categories of a category_scores object.
RECURSIVE SumOver(_, _, _)
SumOver(cs, cats, field) ==
    IF cats = {} THEN 0
    ELSE LET cat == CHOOSE c \in cats : TRUE
         IN  cs[cat][field] + SumOver(cs, cats \ {cat}, field)

\* q1 "Yes", q2 "Partial", q3 "No", every other id absent.
ExampleAnswers == JsonDict([q1 |-> "Yes", q2 |-> "Partial", q3 |-> "No"])

\* C12: each category's possible is the sum of its questions' weights, its
\* earned the sum of their credits, its percentage earned/possible*100; the
\* category values sum to the totals; q1 "Yes", q2 "Partial", q3 "No" gives
\* Consent Management earned 7 (14 half points), possible 13.
C12_CategorySums ==
    /\ LET example == calculate_compliance_score(ExampleAnswers).category_scores
       IN  /\ example["Consent Management"].earned = 14
           /\ example["Consent Management"].possible = 13
           /\ example["Consent Management"].percentage.num * 13
                 = 700 * example["Consent Management"].percentage.den
    /\ Scored =>
          LET cs == score_result.category_scores
          IN  /\ DOMAIN cs = CatalogCategories
              /\ \A cat \in CatalogCategories :
                    /\ cs[cat].possible = CategoryWeightSum(cat, Len(Catalog))
                    /\ cs[cat].earned = CategoryCreditSum(cat, Len(Catalog))
                    /\ cs[cat].percentage.den # 0
                    /\ cs[cat].percentage.num * 2 * cs[cat].possible
                          = 100 * cs[cat].earned * cs[cat].percentage.den
              /\ SumOver(cs, DOMAIN cs, "earned") = score_result.total_earned
              /\ SumOver(cs, DOMAIN cs, "possible") = score_result.total_possible

\* A category holding both a "Yes" and a "Partial": it earned part of its
\* possible points.
C12_Witness ==
    /\ Scored
    /\ \E cat \in CatalogCategories :
          /\ \E i \in QuestionsOf(cat) : Given(Catalog[i].id) = "Yes"
          /\ \E i \in QuestionsOf(cat) : Given(Catalog[i].id) = "Partial"
          /\ 0 < score_result.category_scores[cat].earned
          /\ score_result.category_scores[cat].earned
                < 2 * score_result.category_scores[cat].possible

---------------------------------------------------------------------------
(* C17 *)

\* The catalog questions whose recommendation text and category an entry
\* carries.
SourcesOf(entry) ==
    { i \in CatalogIndex : /\ entry.action = Catalog[i].recommendation
                           /\ entry.category = Catalog[i].category }

\* C17: every returned entry has priority "High" or "Medium", never "Low",
\* and carries the text and category of a catalog question not answered
\* "Yes"; no question answered "Yes" has an entry and no question has two.
C17_Entries ==
    /\ \A i, j \in CatalogIndex :
          Catalog[i].recommendation = Catalog[j].recommendation => i = j
    /\ Scored =>
          /\ \A k \in DOMAIN recommendations :
                /\ recommendations[k].priority \in {"High", "Medium"}
                /\ recommendations[k].priority # "Low"
                /\ SourcesOf(recommendations[k]) # {}
                /\ SourcesOf(recommendations[k]) \subseteq NotYes
          /\ \A i \in CatalogIndex \ NotYes :
                \A k \in DOMAIN recommendations :
                    i \notin SourcesOf(recommendations[k])
          /\ \A k1, k2 \in DOMAIN recommendations :
                SourcesOf(recommendations[k1]) \cap SourcesOf(recommendations[k2]) # {}
                    => k1 = k2

\* Some questions answered "Yes" and fewer than 10 not: every question not
\* answered "Yes" has its entry.
C17_Witness ==
    /\ Scored
    /\ \E i \in CatalogIndex : Given(Catalog[i].id) = "Yes"
    /\ Len(recommendations) > 0
    /\ Len(recommendations) < 10
    /\ Len(recommendations) = Cardinality(NotYes)

---------------------------------------------------------------------------
(* C15 *)

\* The step is a submit_assessment that answered 200.
SubmitSucceeds == pc' = "submit_assessment" /\ response' = 200

\* new is old with exactly one document more, of an _id that old does not
\* hold.
OneAdded(old, new) ==
    /\ Len(new) = Len(old) + 1
    /\ \A k \in DOMAIN old : new[k] = old[k]
    /\ \A k \in DOMAIN old : old[k]._id # new[Len(new)]._id

\* C15: a successful submit_assessment adds exactly one assessment and one
\* report and leaves the stored ones as they were; every other step of a
\* request handler leaves both collections as they were.
C15_AppendOnly ==
    [][/\ SubmitSucceeds =>
              /\ OneAdded(assessments_col, assessments_col')
              /\ OneAdded(reports_col, reports_col')
       /\ ~SubmitSucceeds =>
              /\ assessments_col' = assessments_col
              /\ reports_col' = reports_col]_vars

\* A second successful submission, the first one's documents stored.
C15_Witness ==
    /\ pc = "submit_assessment"
    /\ response = 200
    /\ Len(assessments_col) = 2
    /\ Len(reports_col) = 2
    /\ assessments_col[1]._id # assessments_col[2]._id

---------------------------------------------------------------------------
(* C20 *)

\* The stored profiles of an organization.
ProfilesOf(org_id) ==
    { k \in DOMAIN profiles_col : profiles_col[k].org_id = org_id }

\* C20: the report a successful submit_assessment stores holds the is_sdf
\* and sdf_score of the organization's profile as stored before the step,
\* False and 0 if it has none; a save_profile step leaves every stored
\* report as it was.
C20_Snapshot ==
    [][/\ SubmitSucceeds =>
              LET report == reports_col'[Len(reports_col')]
              IN  IF ProfilesOf(report.org_id) = {}
                    THEN report.is_sdf = FALSE /\ report.sdf_score = 0
                    ELSE \A k \in ProfilesOf(report.org_id) :
                             /\ report.is_sdf = profiles_col[k].is_sdf
                             /\ report.sdf_score = profiles_col[k].sdf_score
       /\ pc' = "save_profile" => reports_col' = reports_col]_vars

\* A profile saved after a report of the same organization was stored: the
\* report holds a score the profile no longer has, next to a report that
\* took the values of a stored profile.
C20_Witness ==
    /\ pc = "save_profile"
    /\ response = 200
    /\ \E r \in DOMAIN reports_col :
          /\ ProfilesOf(reports_col[r].org_id) # {}
          /\ \A k \in ProfilesOf(reports_col[r].org_id) :
                reports_col[r].sdf_score # profiles_col[k].sdf_score
          /\ reports_col[r].is_sdf = TRUE

---------------------------------------------------------------------------
(* C16 *)

\* The fields of a stored profile that calculate_sdf_score reads.
OwnFields(profile) ==
    JsonDict([dataVolume |-> profile.dataVolume,
              employeeCount |-> profile.employeeCount,
              sensitiveData |-> profile.sensitiveData,
              dataTypes |-> profile.dataTypes,
              crossBorderTransfer |-> profile.crossBorderTransfer])

\* C16: every stored profile holds the sdf_score that calculate_sdf_score
\* gives for its own fields, and is_sdf = (sdf_score >= 10).
C16_StoredSdf ==
    \A k \in DOMAIN profiles_col :
        /\ profiles_col[k].sdf_score = calculate_sdf_score(OwnFields(profiles_col[k]))
        /\ profiles_col[k].is_sdf = (profiles_col[k].sdf_score >= 10)

---------------------------------------------------------------------------
(* C18 *)

\* C18: every stored assessment holds the percentage and the category
\* scores that calculate_compliance_score gives for its own answers, and the
\* status and risk of the band of its score.
C18_StoredScores ==
    \A k \in DOMAIN assessments_col :
        LET assessment == assessments_col[k]
            result == calculate_compliance_score(assessment.answers)
        IN  /\ assessment.score = result.percentage
            /\ assessment.category_scores = result.category_scores
            /\ assessment.status = StatusRisk(assessment.score).status
            /\ assessment.risk = StatusRisk(assessment.score).risk

---------------------------------------------------------------------------
(* C19 *)

\* The stored assessments a report references.
AssessmentsOf(report) ==
    { a \in DOMAIN assessments_col : assessments_col[a]._id = report.assessment_id }

\* The stored reports that reference an assessment.
ReportsOf(assessment) ==
    { r \in DOMAIN reports_col : reports_col[r].assessment_id = assessment._id }

\* C19: every stored report references a stored assessment of the same
\* organization and holds its score, status, risk and category scores; every
\* stored assessment has exactly one report.
C19_ReportsMatch ==
    /\ \A r \in DOMAIN reports_col :
          /\ AssessmentsOf(reports_col[r]) # {}
          /\ \A a \in AssessmentsOf(reports_col[r]) :
                /\ assessments_col[a].org_id = reports_col[r].org_id
                /\ assessments_col[a].score = reports_col[r].score
                /\ assessments_col[a].status = reports_col[r].status
                /\ assessments_col[a].risk = reports_col[r].risk
                /\ assessments_col[a].category_scores = reports_col[r].category_scores
    /\ \A a \in DOMAIN assessments_col :
          Cardinality(ReportsOf(assessments_col[a])) = 1

\* A database restored from a backup that held a report: the report is
\* stored again, its date a string, its assessment_id an ObjectId again.
C19_Witness ==
    /\ pc = "restore_database"
    /\ \E r \in DOMAIN reports_col :
          /\ reports_col[r].report_date.type = "str"
          /\ reports_col[r].assessment_id.type = "ObjectId"
          /\ AssessmentsOf(reports_col[r]) # {}

---------------------------------------------------------------------------
(* C14 *)

\* The documents the requests received so far have built.
SubmittedDocs ==
    { threads[r].profile_doc :
        r \in { q \in DOMAIN threads : threads[q].pc \in {"update_one", "write", "done"}
                                       /\ threads[q].response # 500 } }

\* C14: the profiles collection holds at most one profile per organization,
\* and every stored profile holds the fields of exactly one request.
C14_OneProfilePerOrg ==
    /\ \A k1, k2 \in DOMAIN profiles_col :
          profiles_col[k1].org_id = profiles_col[k2].org_id => k1 = k2
    /\ \A k \in DOMAIN profiles_col :
          \E doc \in SubmittedDocs :
              profiles_col[k] = [_id |-> profiles_col[k]._id] @@ doc

---------------------------------------------------------------------------
(* C13 *)

\* What the two functions return for each of the answers, called alone.
AloneScore ==
    [a \in DOMAIN CallArguments |-> calculate_compliance_score(CallArguments[a])]

AloneRecommendations ==
    [a \in DOMAIN CallArguments |->
        generate_recommendations(CallArguments[a], AloneScore[a])]

\* C13: no step of any call changes the answers of a caller, its own
\* included; a call returns what the function gives for its argument alone,
\* whatever the other calls have done in between: two calls on the same
\* answers return the same results.
C13_Independent ==
    [][/\ \A c \in Callers : threads'[c].answers = threads[c].answers
       /\ \A c \in Callers :
             \E a \in DOMAIN CallArguments :
                 /\ threads'[c].answers = CallArguments[a]
                 /\ threads'[c].pc \in {"recommend", "done"} =>
                        threads'[c].score_result = AloneScore[a]
                 /\ threads'[c].pc = "done" =>
                        threads'[c].recommendations = AloneRecommendations[a]
       /\ \A c1, c2 \in Callers :
             /\ threads'[c1].pc = "done"
             /\ threads'[c2].pc = "done"
             /\ threads'[c1].answers = threads'[c2].answers
             => /\ threads'[c1].score_result = threads'[c2].score_result
                /\ threads'[c1].recommendations = threads'[c2].recommendations]_vars

\* Two calls on the same answers in progress at once: one inside the loop of
\* calculate_compliance_score, the other, its score returned, inside the
\* loop of generate_recommendations.
C13_Witness ==
    \E c1, c2 \in Callers :
        /\ threads[c1].answers = threads[c2].answers
        /\ threads[c1].pc = "score"
        /\ threads[c1].i \in 2..Len(Catalog)
        /\ threads[c2].pc = "recommend"
        /\ threads[c2].i \in 2..Len(Catalog)
        /\ threads[c2].score_result.total_earned > 0

---------------------------------------------------------------------------
(* C21 *)

\* The documents of a collection that do not carry an id under a key.
Without(col, key, id) ==
    LET Kept(doc) == doc[key] # id
    IN  SelectSeq(col, Kept)

\* The ids of the organizations that hold an email.
IdsOf(email) ==
    { organizations_col[k]._id :
        k \in { j \in DOMAIN organizations_col : organizations_col[j].email = email } }

\* C21: a delete_organization step for a known email, confirmed with
\* 'DELETE', leaves in each of the four collections exactly the documents
\* that do not carry the organization's id, unchanged and in order; for an
\* unknown email or any other confirmation it changes no collection.
C21_DeleteFrame ==
    [][pc' = "delete_organization" =>
          IF IdsOf(data'.email) # {} /\ data'.confirmation = "DELETE"
            THEN \A id \in IdsOf(data'.email) :
                     /\ organizations_col' = Without(organizations_col, "_id", id)
                     /\ profiles_col' = Without(profiles_col, "org_id", id)
                     /\ assessments_col' = Without(assessments_col, "org_id", id)
                     /\ reports_col' = Without(reports_col, "org_id", id)
            ELSE /\ organizations_col' = organizations_col
                 /\ profiles_col' = profiles_col
                 /\ assessments_col' = assessments_col
                 /\ reports_col' = reports_col]_vars

\* The test organization deleted, confirmed, after setup_database stored it
\* with its profile: no profile is left, while the admin organization and
\* the assessment and report it submitted are still stored.
C21_Witness ==
    /\ pc = "delete_organization"
    /\ data = [email |-> "test@company.com", confirmation |-> "DELETE"]
    /\ IdsOf("test@company.com") = {}
    /\ next_id > 3
    /\ profiles_col = <<>>
    /\ \E id \in IdsOf("admin@dpdp.com") :
           /\ \E k \in DOMAIN assessments_col : assessments_col[k].org_id = id
           /\ \E k \in DOMAIN reports_col : reports_col[k].org_id = id

---------------------------------------------------------------------------
(* C22 *)

\* C22: the file a backup_database step writes restores to the database it
\* was written from: restore_database, confirmed, would store from it the
\* documents of the four collections as they are at backup time, with the
\* same values and value types (ObjectId ids and references, datetime
\* timestamps); a restore that is not confirmed or names a missing file
\* changes no collection.
C22_RoundTrip ==
    [][/\ pc' = "backup_database" =>
             Restored(backup_files'[Len(backup_files')]) =
                 [organizations |-> organizations_col,
                  profiles |-> profiles_col,
                  assessments |-> assessments_col,
                  compliance_reports |-> reports_col]
       /\ (/\ pc' = "restore_database"
           /\ \/ data'.confirmation # "RESTORE"
              \/ data'.backup_file \notin DOMAIN backup_files)
             => UNCHANGED <<organizations_col, profiles_col,
                            assessments_col, reports_col>>]_vars

---------------------------------------------------------------------------
(* C23 *)

\* The positions of the organization documents with role 'organization'.
Listed == { k \in DOMAIN organizations_col : organizations_col[k].role = "organization" }

\* The entries of a list that carry the id of an organization.
ListingsOf(body, org) == { k \in DOMAIN body : body[k].id = StrOf(org._id) }

\* An entry reports the assessment of the organization with the latest
\* created_at, or 'Not Assessed' and null when it has none.
ReportsLatest(entry, org) ==
    LET own == { k \in DOMAIN assessments_col : assessments_col[k].org_id = org._id }
    IN  IF own = {}
          THEN entry.status = "Not Assessed" /\ entry.compliance_score = JsonNull
          ELSE \E k \in own :
                   /\ \A j \in own \ {k} :
                          SortsAfter(assessments_col[k].created_at,
                                     assessments_col[j].created_at)
                   /\ entry.status = assessments_col[k].status
                   /\ entry.compliance_score.type = "float"
                   /\ entry.compliance_score.value = assessments_col[k].score

\* C23: whenever an admin calls admin_get_organizations, the answer is 200
\* with one entry for every organization of role 'organization' and no
\* other entry, each with the score and status of that organization's
\* assessment of the latest created_at, or 'Not Assessed' and a null score;
\* any other caller gets 403 and an empty answer.
C23_AdminListing ==
    /\ pc = "admin_get_organizations" => response \in {200, 403}
    /\ \A i \in DOMAIN organizations_col :
           LET current_org == organizations_col[i]
               answer == admin_organizations(current_org)
           IN  IF current_org.role # "admin"
                 THEN answer.status = 403 /\ answer.body = <<>>
                 ELSE /\ answer.status = 200
                      /\ Len(answer.body) = Cardinality(Listed)
                      /\ \A k \in Listed :
                             /\ Cardinality(ListingsOf(answer.body, organizations_col[k])) = 1
                             /\ \A e \in ListingsOf(answer.body, organizations_col[k]) :
                                    ReportsLatest(answer.body[e], organizations_col[k])

---------------------------------------------------------------------------
(* C24 *)

\* The positions of the organization documents that hold an email.
HoldersOf(col, email) == { k \in DOMAIN col : col[k].email = email }

\* No two organization documents have the same email.
EmailsDistinct(col) ==
    \A j, k \in DOMAIN col : col[j].email = col[k].email => j = k

\* The request has an email that an organization document holds.
Registered(request_json, col) ==
    /\ "email" \in DOMAIN request_json.value
    /\ HoldersOf(col, request_json.value.email) # {}

\* C24: every step of a register request or of an application start leaves
\* no two organization documents with the same email; and a register
\* request that finishes in a step before which its email is registered
\* stores nothing in that step and answers with an error (400 or 500) and
\* no token.
C24_UniqueEmail ==
    [][/\ EmailsDistinct(organizations_col')
       /\ \A r \in Registrations :
              (/\ threads[r].pc # "done"
               /\ threads'[r].pc = "done"
               /\ Registered(threads'[r].request_json, organizations_col))
                 => /\ organizations_col' = organizations_col
                    /\ threads'[r].response \in {400, 500}
                    /\ threads'[r].token = JsonNull]_vars

\* A register request that found its email free has finished with 500 and
\* no token, the email stored in between by another request or by a start:
\* exactly one document holds it.
C24_Witness ==
    \E r \in Registrations :
        /\ threads[r].pc = "done"
        /\ threads[r].response = 500
        /\ threads[r].token = JsonNull
        /\ Cardinality(HoldersOf(organizations_col,
                                 threads[r].request_json.value.email)) = 1
        /\ Len(organizations_col) = 1

---------------------------------------------------------------------------
(* C26 *)

\* The total weight of the catalog: total_possible of every call.
TotalWeight == WeightSum(Len(Catalog))

\* The totals an answer set can earn, in half points.
EarnedTotals == 0..(2 * TotalWeight)

\* The band that the unrounded total_earned / total_possible * 100 falls in:
\* earned / (2 * TotalWeight) * 100 >= 80, >= 50, or below.
ExactBand(earned) ==
    IF 100 * earned >= 80 * 2 * TotalWeight
      THEN [status |-> "Fully Compliant", risk |-> "Low"]
    ELSE IF 100 * earned >= 50 * 2 * TotalWeight
      THEN [status |-> "Partially Compliant", risk |-> "Medium"]
    ELSE [status |-> "Non-Compliant", risk |-> "High"]

\* The totals whose percentage, rounded to 2 decimals, is the score.
TotalsOf(s) == { e \in EarnedTotals : OverallPercentage(e, TotalWeight) = s }

\* C26: the band chosen from a rounded percentage is the band of every
\* unrounded total_earned / total_possible * 100 of the catalog that rounds
\* to it: rounding lifts no total across 50 or 80, and a total of exactly 50
\* or 80 is in the upper band.
C26_RoundedBand ==
    Classified =>
        \A e \in TotalsOf(score) :
            [status |-> status, risk |-> risk] = ExactBand(e)

\* The score 50.00 classified, which is the rounding of the total of exactly
\* half the catalog's weight: "Partially Compliant".
C26_Witness ==
    /\ Classified
    /\ score = 5000
    /\ TotalWeight \in TotalsOf(score)
    /\ 100 * TotalWeight = 50 * 2 * TotalWeight
    /\ status = "Partially Compliant"

---------------------------------------------------------------------------
(* C25 *)

\* What an answers object holds for a question; "No" when absent, as read by
\* answers.get(q_id, 'No').
AnswerTo(ans, q) == DictGet(ans, q.id, "No")

\* The second answers object is the first with the answer to exactly one
\* catalog question raised in the order.
OneRaised(lower, raised) ==
    \E i \in CatalogIndex :
        /\ AnswerRank(AnswerTo(lower, Catalog[i])) < AnswerRank(AnswerTo(raised, Catalog[i]))
        /\ \A j \in CatalogIndex \ {i} :
               AnswerTo(lower, Catalog[j]) = AnswerTo(raised, Catalog[j])

\* The place of a band, the best last.
BandRank(s, r) ==
    IF s = "Fully Compliant" /\ r = "Low" THEN 2
    ELSE IF s = "Partially Compliant" /\ r = "Medium" THEN 1
    ELSE 0

\* a <= b for two exact fractions with positive denominators
FracLeq(a, b) == a.num * b.den <= b.num * a.den

\* Every entry of recs is an entry of the other list for the same
\* recommendation, of a priority that is not lower.
NoneAddedOrRaised(recs, others) ==
    \A k \in DOMAIN recs :
        \E j \in DOMAIN others :
            /\ others[j].action = recs[k].action
            /\ others[j].category = recs[k].category
            /\ priority_map[others[j].priority] <= priority_map[recs[k].priority]

\* C25: when two answers objects that differ by one raised answer have both
\* been assessed, the raised one has no lower overall percentage, no lower
\* percentage in any category, no worse band, and every recommendation entry
\* of the raised one is an entry of the other, there with at least its
\* priority.
C25_Monotone ==
    (/\ pc = "raise"
     /\ threads[1].pc = "done"
     /\ threads[2].pc = "done"
     /\ OneRaised(threads[1].answers, threads[2].answers))
      => LET lower == threads[1]
             raised == threads[2]
         IN  /\ lower.score_result.percentage <= raised.score_result.percentage
             /\ DOMAIN lower.score_result.category_scores
                    = DOMAIN raised.score_result.category_scores
             /\ \A cat \in DOMAIN lower.score_result.category_scores :
                    FracLeq(lower.score_result.category_scores[cat].percentage,
                            raised.score_result.category_scores[cat].percentage)
             /\ BandRank(lower.status, lower.risk) <= BandRank(raised.status, raised.risk)
             /\ NoneAddedOrRaised(raised.recommendations, lower.recommendations)

\* Both assessed, one answer raised: the percentage rises from below 50.00
\* to 50.00 and the band from "Non-Compliant" to "Partially Compliant"; the
\* entries are as many, one of them "High" before the raise and all of them
\* "Medium" after it.
C25_Witness ==
    /\ pc = "raise"
    /\ threads[1].pc = "done"
    /\ threads[2].pc = "done"
    /\ OneRaised(threads[1].answers, threads[2].answers)
    /\ threads[1].score_result.percentage < 5000
    /\ threads[2].score_result.percentage = 5000
    /\ threads[1].status = "Non-Compliant"
    /\ threads[2].status = "Partially Compliant"
    /\ Len(threads[1].recommendations) = Len(threads[2].recommendations)
    /\ \E k \in DOMAIN threads[1].recommendations :
           threads[1].recommendations[k].priority = "High"
    /\ \A k \in DOMAIN threads[2].recommendations :
           threads[2].recommendations[k].priority = "Medium"

====
